---- MODULE Spec2Model ----
(***************************************************************************)
(* Model of the multi-pass research pipeline of                            *)
(* src/src/lib/research/pipeline.ts (runResearchPipeline and its helpers)  *)
(* and of the scored gate of src/unnamed/part_000 (scoreSourcesAndGate).   *)
(*                                                                         *)
(* Strings are sequences of UTF-16 code units (naturals), so that          *)
(* normalisation, truncation and hashing are computed character by         *)
(* character as the code computes them.  A URL is a sequence of tokens     *)
(* (scheme, host labels, path) that safeDomain parses.                     *)
(***************************************************************************)
EXTENDS Integers, Sequences, FiniteSets, TLC

VARIABLES
  input,         \* PipelineInput of the call: goal, decision, outputLanguage
  includeDebug,  \* deps.includeDebug: TRUE, FALSE or absent
  env,           \* process.env: VITEST and RESEARCH_LOGS
  pc,            \* where the call of runResearchPipeline stands
  queries,       \* runTavilyPass: the queries of the pass being run
  qi,            \* runTavilyPass: position of the for loop in queries
  qDebug,        \* runTavilyPass: query records of the pass so far
  allSources,    \* runTavilyPass: raw results of the pass so far
  seed,          \* result of the seed pass, once it has completed
  expand,        \* result of the expand pass, once it has completed
  authority,     \* result of the authority pass, once it has completed
  debugPasses,   \* runResearchPipeline: debug records pushed so far
  inflight,      \* the query string the searcher is working on, if any
  output,        \* the PipelineOutput the call resolved with, if any
  error,         \* the error the call rejected with, if any
  log,           \* what logEvent has written to the console
  hist,          \* history: stages entered, searcher calls and their outcomes
  hits,          \* history: searcher calls that returned a non-empty list
  memo,          \* pure searcher: the answer it has given to each query
  run1,          \* what the first of two runs ended with, once it is over
  tq,            \* string harness: the segments of the query handed over
  tres,          \* string harness: maxLen -> result of truncateTavilyQuery
  gsources,      \* gate harness: the source list handed to simpleGate
  gsimple,       \* gate harness: the decisionStatus simpleGate returned
  ktext,         \* keyword harness: the words of the text handed over
  kres,          \* keyword harness: max -> extractKeywordsDeterministic
  dsources,      \* dedupe harness: the source list handed over
  dres,          \* dedupe harness: what dedupeSourcesByUrl returned
  ssites,        \* score harness: the sites the sources handed over are on
  skinds,        \* score harness: the kinds of the sources handed over
  sres           \* score harness: what scoreSourcesAndGate returned

pvars == <<input, includeDebug, env, pc, queries, qi, qDebug, allSources, seed,
           expand, authority, debugPasses, inflight, output, error, log, hist,
           hits>>
rvars == <<memo, run1>>
kvars == <<ktext, kres>>
dvars == <<dsources, dres>>
svars == <<ssites, skinds, sres>>
hvars == <<tq, tres, gsources, gsimple, kvars, dvars, svars>>
vars  == <<pvars, rvars, hvars>>

\* an absent string-valued setting (undefined)
NoValue == "none"

\* an optional value: None, or Some(v) holding v
None == <<>>
Some(v) == <<v>>
Get(o) == o[1]

(***************************************************************************)
(* Bounds of the model                                                     *)
(***************************************************************************)
MaxHits == 3      \* searcher calls of one run that return a non-empty list
MaxPureHits == 2  \* queries the pure searcher answers with a non-empty list
LongLen == 450    \* length of the long goal text
MaxSegs == 3      \* number of segments a harness query is made of
MaxWords == 4     \* number of words a harness text is made of
MaxDedupLen == 4  \* length of the source lists handed to the dedupe harness
MaxGateLen == 7   \* length of the source lists handed to the gate harness
MaxScoreLen == 12 \* length of the source lists handed to the score harness

(***************************************************************************)
(* Program constants                                                       *)
(***************************************************************************)
TAVILY_QUERY_MAX == 400

\* " ... " with U+2026 in the middle: the 3-character elision marker
marker == <<32, 8230, 32>>

S_HashTag == <<102, 110, 118, 49, 97, 51, 50, 58>>  \* "fnv1a32:"

(***************************************************************************)
(* JavaScript string primitives                                            *)
(***************************************************************************)
Min(a, b) == IF a <= b THEN a ELSE b
Max(a, b) == IF a >= b THEN a ELSE b

Rep(c, n) == [i \in 1..n |-> c]

\* the characters matched by \s in a regular expression, which are also the
\* characters String.prototype.trim / trimStart / trimEnd remove
IsWs(c) ==
  \/ c \in {9, 10, 11, 12, 13, 32, 160, 5760, 8232, 8233, 8239, 8287, 12288, 65279}
  \/ (c >= 8192 /\ c <= 8202)

\* s.replace(/\s+/g, " "): every maximal run of whitespace becomes one space
ReplaceWsRuns(s) ==
  LET marked == [i \in 1..Len(s) |-> <<s[i], i > 1 /\ IsWs(s[i - 1])>>]
      kept   == SelectSeq(marked, LAMBDA p : ~(IsWs(p[1]) /\ p[2]))
  IN  [i \in 1..Len(kept) |-> IF IsWs(kept[i][1]) THEN 32 ELSE kept[i][1]]

\* s.replace(/\u0000/g, "")
RemoveNul(s) == SelectSeq(s, LAMBDA c : c # 0)

\* s.trimStart()
RECURSIVE TrimStart(_)
TrimStart(s) ==
  IF s # <<>> /\ IsWs(s[1]) THEN TrimStart(SubSeq(s, 2, Len(s))) ELSE s

\* s.trimEnd()
RECURSIVE TrimEnd(_)
TrimEnd(s) ==
  IF s # <<>> /\ IsWs(s[Len(s)]) THEN TrimEnd(SubSeq(s, 1, Len(s) - 1)) ELSE s

\* s.trim()
Trim(s) == TrimEnd(TrimStart(s))

\* s.slice(start, end) with JavaScript's handling of negative and
\* out-of-range indices (0-based, end exclusive)
Slice(s, start, end) ==
  LET n    == Len(s)
      from == IF start < 0 THEN Max(n + start, 0) ELSE Min(start, n)
      to   == IF end < 0 THEN Max(n + end, 0) ELSE Min(end, n)
  IN  IF from < to THEN SubSeq(s, from + 1, to) ELSE <<>>

\* s.slice(start)
SliceFrom(s, start) == Slice(s, start, Len(s))

(***************************************************************************)
(* normalizeQuery (pipeline.ts 306-308)                                    *)
(***************************************************************************)
normalizeQuery(q) == Trim(RemoveNul(ReplaceWsRuns(q)))

(***************************************************************************)
(* fnv1a (pipeline.ts 285-292).  h is a JavaScript number; it is kept as   *)
(* two 16-bit halves <<hi, lo>> of its unsigned 32-bit value.              *)
(*   h ^= c        : ToInt32(h) xor c, a SIGNED 32-bit integer             *)
(*   h * 0x01000193: an IEEE-754 double product, rounded to 53 bits        *)
(*   >>> 0         : the rounded product modulo 2^32                       *)
(***************************************************************************)
W16 == 65536

\* bitwise exclusive or of two naturals
RECURSIVE XorBits(_, _)
XorBits(a, b) ==
  IF b = 0 THEN a
  ELSE IF a = 0 THEN b
  ELSE ((a + b) % 2) + 2 * XorBits(a \div 2, b \div 2)

\* the exclusive or of two bytes, tabulated
XorByte == [a \in 0..255 |-> [b \in 0..255 |-> XorBits(a, b)]]

\* the exclusive or of two 16-bit values, byte by byte
Xor(a, b) ==
  IF b < 256 THEN a - (a % 256) + XorByte[a % 256][b]
  ELSE 256 * XorByte[a \div 256][b \div 256] + XorByte[a % 256][b % 256]

\* the low 32 bits <<hi, lo>> of the double nearest to P = mag * 16777619,
\* where mag = mhi * 2^16 + mlo <= 2^31 and 16777619 = 2^24 + 403.  A double
\* holds 53 bits, so the low 0 to 3 bits of P are rounded away (to nearest,
\* ties to even) according to the size of P.
RoundedProductLow32(mhi, mlo) ==
  LET t0   == mlo * 403
      t1   == mhi * 403 + (t0 \div W16)            \* (mag * 403) div 2^16
      lo0  == t0 % W16                             \* P mod 2^16
      hi0  == (t1 + (mlo % 256) * 256) % W16       \* (P div 2^16) mod 2^16
      top  == mhi + ((mlo + (t1 \div 256)) \div W16)   \* P div 2^40
      unit == IF top < 8192 THEN 1 ELSE IF top < 16384 THEN 2
              ELSE IF top < 32768 THEN 4 ELSE 8
      r    == lo0 % unit
      up   == 2 * r > unit \/ (2 * r = unit /\ (lo0 \div unit) % 2 = 1)
      q0   == lo0 - r + (IF up THEN unit ELSE 0)
  IN  <<(hi0 + (q0 \div W16)) % W16, q0 % W16>>

\* 2^32 - x modulo 2^32 on <<hi, lo>>
Neg32(x) ==
  IF x[2] = 0 THEN <<(W16 - x[1]) % W16, 0>>
  ELSE <<W16 - 1 - x[1], W16 - x[2]>>

\* one round of the loop body: h ^= c; h = (h * 0x01000193) >>> 0
FnvStep(h, c) ==
  LET x   == <<h[1], Xor(h[2], c)>>        \* bit pattern of h ^ c
      neg == x[1] >= 32768                        \* its sign as an int32
      mag == IF neg THEN Neg32(x) ELSE x          \* |h ^ c|, at most 2^31
      mhi == IF neg /\ mag = <<0, 0>> THEN W16 ELSE mag[1]
      low == RoundedProductLow32(mhi, mag[2])
  IN  IF neg THEN Neg32(low) ELSE low

\* left fold of FnvStep over s[lo..hi], evaluated by halving so that the
\* evaluation depth stays logarithmic in the length
RECURSIVE FnvFold(_, _, _, _)
FnvFold(h, s, lo, hi) ==
  IF lo > hi THEN h
  ELSE IF lo = hi THEN FnvStep(h, s[lo])
  ELSE LET mid  == (lo + hi) \div 2
           left == FnvFold(h, s, lo, mid)
       IN  IF left = left THEN FnvFold(left, s, mid + 1, hi) ELSE h

HexDigit(d) == IF d < 10 THEN 48 + d ELSE 87 + d

\* (hi * 2^16 + lo).toString(16).padStart(8, "0")
Hex8(h) ==
  <<HexDigit(h[1] \div 4096), HexDigit((h[1] \div 256) % 16),
    HexDigit((h[1] \div 16) % 16), HexDigit(h[1] % 16),
    HexDigit(h[2] \div 4096), HexDigit((h[2] \div 256) % 16),
    HexDigit((h[2] \div 16) % 16), HexDigit(h[2] % 16)>>

FNV_OFFSET == <<33052, 40389>>   \* 0x811c9dc5

fnv1a(str) == S_HashTag \o Hex8(FnvFold(FNV_OFFSET, str, 1, Len(str)))

(***************************************************************************)
(* truncateTavilyQuery (pipeline.ts 252-283)                               *)
(***************************************************************************)
\* lines 262-264: the query fits and is handed on whole
KeepWhole(q0) ==
  [q |-> q0, truncated |-> FALSE, originalLength |-> Len(q0),
   usedLength |-> Len(q0), hash |-> fnv1a(q0)]

\* a cut whose hash is taken from the query that is sent
CutToFitHashOfSent(q0, maxLen) ==
  LET keep    == maxLen - Len(marker)
      headLen == (keep * 72) \div 100
      tailLen == keep - headLen
      head    == TrimEnd(Slice(q0, 0, headLen))
      tail    == TrimStart(SliceFrom(q0, Len(q0) - tailLen))
      q       == Slice(head \o marker \o tail, 0, maxLen)
  IN  [q |-> q, truncated |-> TRUE, originalLength |-> Len(q0),
       usedLength |-> Len(q), hash |-> fnv1a(q)]

\* a cut that leaves the white space at the two cuts in place
CutToFitUntrimmed(q0, maxLen) ==
  LET keep    == maxLen - Len(marker)
      headLen == (keep * 72) \div 100
      tailLen == keep - headLen
      head    == Slice(q0, 0, headLen)
      tail    == SliceFrom(q0, Len(q0) - tailLen)
      q       == Slice(head \o marker \o tail, 0, maxLen)
  IN  [q |-> q, truncated |-> TRUE, originalLength |-> Len(q0),
       usedLength |-> Len(q), hash |-> fnv1a(q0)]

\* lines 266-282: head, marker and tail of a query that does not fit
CutToFit(q0, maxLen) ==
  LET keep    == maxLen - Len(marker)
      headLen == (keep * 72) \div 100      \* Math.floor(keep * 0.72)
      tailLen == keep - headLen
      head    == TrimEnd(Slice(q0, 0, headLen))
      tail    == TrimStart(SliceFrom(q0, Len(q0) - tailLen))
      q       == Slice(head \o marker \o tail, 0, maxLen)
  IN  [q |-> q, truncated |-> TRUE, originalLength |-> Len(q0),
       usedLength |-> Len(q), hash |-> fnv1a(q0)]

\* a truncation that also cuts a query of exactly maxLen characters
truncateAtLimit(query, maxLen) ==
  LET q0             == normalizeQuery(query)
      originalLength == Len(q0)
  IN  IF originalLength < maxLen THEN KeepWhole(q0) ELSE CutToFit(q0, maxLen)

truncateTavilyQuery(query, maxLen) ==
  LET q0             == normalizeQuery(query)
      originalLength == Len(q0)
  IN  IF originalLength <= maxLen THEN KeepWhole(q0) ELSE CutToFit(q0, maxLen)

(***************************************************************************)
(* Sequences of strings                                                    *)
(***************************************************************************)
RECURSIVE Join(_, _)
\* parts.join(sep)
Join(parts, sep) ==
  IF parts = <<>> THEN <<>>
  ELSE IF Len(parts) = 1 THEN parts[1]
  ELSE parts[1] \o sep \o Join(Tail(parts), sep)

\* xs.filter(Boolean) on strings: the empty string is falsy
FilterNonEmpty(xs) == SelectSeq(xs, LAMBDA x : x # <<>>)

\* xs.slice(from, to) on arrays
ArraySlice(xs, from, to) == Slice(xs, from, to)

Range(f) == {f[i] : i \in DOMAIN f}

\* code-unit lexicographic order; a.localeCompare(b) < 0 on the tokens the
\* extractor produces (characters of [a-z0-9-] only)
LexLess(a, b) ==
  \E i \in 1..(Len(a) + 1) :
    /\ i <= Len(b)
    /\ \A j \in 1..(i - 1) : a[j] = b[j]
    /\ (i = Len(a) + 1 \/ a[i] < b[i])

(***************************************************************************)
(* URLs.  A url is a sequence of tokens, each a string: a scheme token,    *)
(* host tokens, and path tokens that start with "/".  The url string is    *)
(* the concatenation of its tokens; <<>> is the empty string.              *)
(***************************************************************************)
UrlString(url) == Join(url, <<>>)

SpecialSchemes == {<<104, 116, 116, 112, 115, 58, 47, 47>>, <<104, 116, 116,
    112, 58, 47, 47>>}
Schemes == SpecialSchemes \cup {<<102, 105, 108, 101, 58, 47, 47>>}

IsPathToken(tok) == tok # <<>> /\ tok[1] = 47

\* the host part: the tokens after the scheme up to the first path token
HostTokens(url) ==
  LET n     == Len(url)
      stops == {i \in 2..n : IsPathToken(url[i])}
      end   == IF stops = {} THEN n
               ELSE (CHOOSE i \in stops : \A j \in stops : i <= j) - 1
  IN  SubSeq(url, 2, end)

ToLowerCase(s) ==
  [i \in 1..Len(s) |->
     IF s[i] >= 65 /\ s[i] <= 90 THEN s[i] + 32
     ELSE IF s[i] = 8490 THEN 107      \* KELVIN SIGN lowercases to "k"
     ELSE s[i]]

\* new URL(url) succeeds: there is a scheme, and a special scheme has a host
UrlParses(url) ==
  /\ Len(url) >= 1
  /\ url[1] \in Schemes
  /\ (url[1] \in SpecialSchemes => Join(HostTokens(url), <<>>) # <<>>)

\* new URL(url).hostname
hostname(url) == ToLowerCase(Join(HostTokens(url), <<>>))

\* h.replace(/^www\./, "")
StripWww(h) ==
  IF Len(h) >= 4 /\ SubSeq(h, 1, 4) = <<119, 119, 119, 46>> THEN SubSeq(h, 5,
      Len(h)) ELSE h

(***************************************************************************)
(* Utilities (pipeline.ts 297-321)                                         *)
(***************************************************************************)
\* a safeDomain whose catch hands back the url text instead of ""
safeDomainOrUrl(url) ==
  IF UrlParses(url) THEN StripWww(hostname(url)) ELSE UrlString(url)

safeDomain(url) == IF UrlParses(url) THEN StripWww(hostname(url)) ELSE <<>>

\* a dedupe whose map.set is not guarded by map.has: the slot of the first
\* occurrence ends up holding the last one
dedupeLastWins(sources) ==
  LET first(i) == /\ sources[i].url # <<>>
                  /\ \A j \in 1..(i - 1) : sources[j].url # sources[i].url
      kept     == SelectSeq([i \in 1..Len(sources) |-> i], first)
      lastOf(i) == CHOOSE j \in i..Len(sources) :
                     /\ sources[j].url = sources[i].url
                     /\ \A k \in (j + 1)..Len(sources) : sources[k].url # sources[i].url
  IN  [k \in 1..Len(kept) |-> sources[lastOf(kept[k])]]

dedupeSourcesByUrl(sources) ==
  LET first(i) == /\ sources[i].url # <<>>
                  /\ \A j \in 1..(i - 1) : sources[j].url # sources[i].url
      kept     == SelectSeq([i \in 1..Len(sources) |-> i], first)
  IN  [k \in 1..Len(kept) |-> sources[kept[k]]]

\* sources.map((s) => safeDomain(s.url)).filter(Boolean)
DomainsOf(sources) ==
  FilterNonEmpty([i \in 1..Len(sources) |-> safeDomain(sources[i].url)])

\* new Set(sources.map((s) => safeDomain(s.url)).filter(Boolean)).size
DomainCount(sources) == Cardinality(Range(DomainsOf(sources)))

\* Array.from(new Set(xs)): the distinct values in order of first appearance
DistinctInOrder(xs) ==
  LET first(i) == \A j \in 1..(i - 1) : xs[j] # xs[i]
      kept     == SelectSeq([i \in 1..Len(xs) |-> i], first)
  IN  [k \in 1..Len(kept) |-> xs[kept[k]]]

AUTHORITY_DOMAINS ==
  <<<<119, 105, 107, 105, 112, 101, 100, 105, 97, 46, 111, 114, 103>>, <<103,
      111, 118>>, <<101, 117, 114, 111, 112, 97, 46, 101, 117>>, <<119, 104,
      111, 46, 105, 110, 116>>, <<111, 101, 99, 100, 46, 111, 114, 103>>,
    <<105, 109, 102, 46, 111, 114, 103>>, <<119, 111, 114, 108, 100, 98, 97,
        110, 107, 46, 111, 114, 103>>, <<110, 97, 116, 117, 114, 101, 46, 99,
        111, 109>>, <<115, 99, 105, 101, 110, 99, 101, 46, 111, 114, 103>>,
    <<115, 99, 105, 101, 110, 99, 101, 100, 105, 114, 101, 99, 116, 46, 99,
        111, 109>>, <<106, 97, 109, 97, 110, 101, 116, 119, 111, 114, 107, 46,
        99, 111, 109>>, <<110, 101, 106, 109, 46, 111, 114, 103>>, <<104, 97,
        114, 118, 97, 114, 100, 46, 101, 100, 117>>,
    <<109, 105, 116, 46, 101, 100, 117>>>>

\* a pick that hands out the whole list
pickEveryAuthorityDomain(n) == AUTHORITY_DOMAINS

\* AUTHORITY_DOMAINS.slice(0, n)
pickAuthorityDomains(n) == ArraySlice(AUTHORITY_DOMAINS, 0, n)

(***************************************************************************)
(* extractKeywordsDeterministic (pipeline.ts 323-350)                      *)
(***************************************************************************)
stop ==
  {<<116, 104, 101>>, <<97, 110, 100>>, <<102, 111, 114>>, <<119, 105, 116,
      104>>, <<102, 114, 111, 109>>, <<116, 104, 97, 116>>, <<116, 104, 105,
      115>>, <<97, 114, 101>>,
   <<119, 97, 115>>, <<119, 101, 114, 101>>, <<121, 111, 117>>, <<121, 111,
       117, 114>>, <<116, 104, 101, 105, 114>>, <<97, 98, 111, 117, 116>>,
       <<105, 110, 116, 111>>, <<111, 118, 101, 114>>,
   <<117, 110, 100, 101, 114>>, <<109, 111, 114, 101>>, <<108, 101, 115,
       115>>, <<116, 104, 97, 110>>, <<116, 104, 101, 110>>, <<97, 108, 115,
       111>>, <<104, 111, 119>>, <<119, 104, 97, 116>>,
   <<119, 104, 121>>, <<119, 104, 101, 110>>, <<119, 104, 101, 114, 101>>,
       <<119, 104, 105, 99, 104>>, <<119, 104, 111>>, <<119, 104, 111, 109>>,
       <<99, 97, 110>>, <<99, 111, 117, 108, 100>>,
   <<115, 104, 111, 117, 108, 100>>, <<119, 111, 117, 108, 100>>, <<109, 97,
       121>>, <<109, 105, 103, 104, 116>>, <<101, 118, 105, 100, 101, 110, 99,
       101>>, <<97, 110, 97, 108, 121, 115, 105, 115>>,
   <<114, 101, 115, 101, 97, 114, 99, 104>>, <<115, 116, 117, 100, 121>>,
       <<115, 116, 117, 100, 105, 101, 115>>, <<114, 101, 112, 111, 114,
       116>>, <<114, 101, 112, 111, 114, 116, 115>>}

\* a character the class [^a-z0-9\s-] does not match
IsKeywordChar(c) ==
  \/ (c >= 97 /\ c <= 122)
  \/ (c >= 48 /\ c <= 57)
  \/ IsWs(c)
  \/ c = 45

\* text.toLowerCase().replace(/[^a-z0-9\s-]/g, " ").replace(/\s+/g, " ").trim()
CleanText(text) ==
  LET lower == ToLowerCase(text)
  IN  Trim(ReplaceWsRuns(
        [i \in 1..Len(lower) |-> IF IsKeywordChar(lower[i]) THEN lower[i] ELSE 32]))

\* cleaned.split(" ") for a string without leading, trailing or double
\* spaces: the maximal runs of non-space characters, in order
SplitOnSpace(s) ==
  LET n       == Len(s)
      starts  == SelectSeq([i \in 1..n |-> i],
                           LAMBDA i : s[i] # 32 /\ (i = 1 \/ s[i - 1] = 32))
      ends    == SelectSeq([i \in 1..n |-> i],
                           LAMBDA i : s[i] # 32 /\ (i = n \/ s[i + 1] = 32))
  IN  [k \in 1..Len(starts) |-> SubSeq(s, starts[k], ends[k])]

\* a sort by frequency alone, which leaves equal frequencies as inserted
SortByFreqOnly(tokens) ==
  LET toks    == DistinctInOrder(tokens) \o <<>>
      n       == Len(toks)
      count   == [k \in 1..n |->
                    Cardinality({i \in DOMAIN tokens : tokens[i] = toks[k]})] \o <<>>
      before(a, b) == count[a] > count[b] \/ (count[a] = count[b] /\ a < b)
      rank    == [k \in 1..n |-> Cardinality({u \in 1..n : before(u, k)})] \o <<>>
  IN  [k \in 1..n |-> toks[CHOOSE t \in 1..n : rank[t] = k - 1]]

\* the entries of freq, which a Map keeps in order of first insertion, sorted
\* by (b[1] - a[1]) || a[0].localeCompare(b[0]); entries are named by their
\* position in freq, and no two of them compare equal
SortByFreq(tokens) ==
  LET toks    == DistinctInOrder(tokens) \o <<>>
      n       == Len(toks)
      count   == [k \in 1..n |->
                    Cardinality({i \in DOMAIN tokens : tokens[i] = toks[k]})] \o <<>>
      before(a, b) == count[a] > count[b]
                        \/ (count[a] = count[b] /\ LexLess(toks[a], toks[b]))
      rank    == [k \in 1..n |-> Cardinality({u \in 1..n : before(u, k)})] \o <<>>
  IN  [k \in 1..n |-> toks[CHOOSE t \in 1..n : rank[t] = k - 1]]

extractKeywordsDeterministic(text, max) ==
  LET cleaned == CleanText(text)
  IN  IF cleaned = <<>> THEN <<>>
      ELSE LET surviving == SelectSeq(SplitOnSpace(cleaned),
                                      LAMBDA t : ~(Len(t) < 4) /\ t \notin stop)
           IN  ArraySlice(SortByFreq(surviving), 0, max)

(***************************************************************************)
(* Pass builders (pipeline.ts 104-139)                                     *)
(***************************************************************************)
buildSeedQueries(inp) ==
  LET q1 == inp.goal \o <<46, 32, 67, 111, 110, 116, 101, 120, 116, 58,
      32>> \o inp.decision \o <<46>>
      q2 == inp.decision \o <<32, 101, 118, 105, 100, 101, 110, 99, 101, 32,
          98, 101, 110, 99, 104, 109, 97, 114, 107, 115, 32, 97, 110, 100, 32,
          100, 101, 99, 105, 115, 105, 111, 110, 32, 99, 114, 105, 116, 101,
          114, 105, 97>>
      q3 == inp.decision \o <<32, 114, 105, 115, 107, 115, 32, 101, 100, 103,
          101, 32, 99, 97, 115, 101, 115, 32, 116, 114, 97, 100, 101, 45, 111,
          102, 102, 115>>
  IN  FilterNonEmpty(<<normalizeQuery(q1), normalizeQuery(q2), normalizeQuery(q3)>>)

\* seedSources.slice(0, 6).map((s) => `${s.title} ${s.snippet}`.trim()).filter(Boolean)
\* a top that takes every seed source
ExpandTopOfAll(seedSources) ==
  FilterNonEmpty([i \in 1..Len(seedSources) |->
                    Trim(seedSources[i].title \o <<32>> \o seedSources[i].snippet)])

ExpandTop(seedSources) ==
  LET six == ArraySlice(seedSources, 0, 6)
  IN  FilterNonEmpty([i \in 1..Len(six) |-> Trim(six[i].title \o <<32>> \o six[i].snippet)])

ExpandKeywords(seedSources) ==
  extractKeywordsDeterministic(Join(ExpandTop(seedSources), <<32>>), 10)

\* expand queries whose second slice starts one keyword early
buildExpandQueriesOverlapping(inp, seedSources) ==
  LET keywords == ExpandKeywords(seedSources)
      base     == inp.decision
      qs == <<base \o <<32>> \o Join(ArraySlice(keywords, 0, 3),
          <<32>>) \o <<32, 99, 111, 109, 112, 97, 114, 97, 116, 105, 118, 101,
          32, 97, 110, 97, 108, 121, 115, 105, 115>>,
              base \o <<32>> \o Join(ArraySlice(keywords, 2, 6),
                  <<32>>) \o <<32, 108, 97, 116, 101, 115, 116, 32, 101, 118,
                  105, 100, 101, 110, 99, 101>>,
              base \o <<32>> \o Join(ArraySlice(keywords, 6, 10),
                  <<32>>) \o <<32, 102, 97, 105, 108, 117, 114, 101, 32, 109,
                  111, 100, 101, 115>>>>
  IN  FilterNonEmpty([i \in 1..3 |-> normalizeQuery(qs[i])])

buildExpandQueries(inp, seedSources) ==
  LET keywords == ExpandKeywords(seedSources)
      base     == inp.decision
      qs == <<base \o <<32>> \o Join(ArraySlice(keywords, 0, 3),
          <<32>>) \o <<32, 99, 111, 109, 112, 97, 114, 97, 116, 105, 118, 101,
          32, 97, 110, 97, 108, 121, 115, 105, 115>>,
              base \o <<32>> \o Join(ArraySlice(keywords, 3, 6),
                  <<32>>) \o <<32, 108, 97, 116, 101, 115, 116, 32, 101, 118,
                  105, 100, 101, 110, 99, 101>>,
              base \o <<32>> \o Join(ArraySlice(keywords, 6, 10),
                  <<32>>) \o <<32, 102, 97, 105, 108, 117, 114, 101, 32, 109,
                  111, 100, 101, 115>>>>
  IN  FilterNonEmpty([i \in 1..3 |-> normalizeQuery(qs[i])])

\* Array.from(new Set(sourcesSoFar.map(safeDomain).filter(Boolean))).slice(0, 8)
\* a hint that lists every domain seen
AuthorityHintEveryDomain(sourcesSoFar) == DistinctInOrder(DomainsOf(sourcesSoFar))

AuthorityHintDomains(sourcesSoFar) ==
  ArraySlice(DistinctInOrder(DomainsOf(sourcesSoFar)), 0, 8)

buildAuthorityQueries(inp, sourcesSoFar) ==
  LET domains     == AuthorityHintDomains(sourcesSoFar)
      domainHints == IF Len(domains) # 0
                     THEN <<32, 65, 108, 114, 101, 97, 100, 121, 45, 115, 101,
                         101, 110, 32, 100, 111, 109, 97, 105, 110, 115, 58,
                         32>> \o Join(domains, <<44, 32>>) \o <<46>>
                     ELSE <<>>
      base  == normalizeQuery(inp.decision
                 \o <<32, 97, 117, 116, 104, 111, 114, 105, 116, 97, 116, 105,
                     118, 101, 32, 115, 111, 117, 114, 99, 101, 115, 32, 103,
                     117, 105, 100, 101, 108, 105, 110, 101, 115, 32, 99, 111,
                     110, 115, 101, 110, 115, 117, 115>> \o domainHints)
      sites == pickAuthorityDomains(3)
      siteQ == [i \in 1..Len(sites) |->
                  normalizeQuery(inp.decision \o <<32, 115, 105, 116, 101,
                      58>> \o sites[i] \o <<32, 101, 118, 105, 100, 101, 110,
                      99, 101>>)]
      all   == <<base>> \o siteQ
  IN  FilterNonEmpty([i \in 1..Len(all) |-> normalizeQuery(all[i])])

(***************************************************************************)
(* Gating (pipeline.ts 193-223).  confidence is kept in hundredths: 78     *)
(* stands for 0.78 and 32 for 0.32.  The rationale and the output texts    *)
(* are fixed templates; a text is kept as the template's first words       *)
(* together with the values interpolated into it.                          *)
(***************************************************************************)
\* lines 204-222: the object returned for a verdict
GateOutcome(enough, lang, nSources, nDomains) ==
  IF enough
  THEN [decisionStatus |-> "EVIDENCE_SUFFICIENT",
        confidence |-> 78,
        confidenceRationale |->
          [template |-> IF lang = "en" THEN "Sufficient breadth"
                        ELSE "Voldoende breedte",
           sources |-> nSources, domains |-> nDomains]]
  ELSE [decisionStatus |-> "INSUFFICIENT_EVIDENCE",
        confidence |-> 32,
        confidenceRationale |->
          [template |-> IF lang = "en" THEN "Insufficient breadth"
                        ELSE "Onvoldoende breedte",
           sources |-> nSources, domains |-> nDomains]]

\* a gate that asks for either threshold instead of both
simpleGateEither(sources, lang) ==
  LET nDomains == DomainCount(sources)
      enough   == Len(sources) >= 6 \/ nDomains >= 4
  IN  GateOutcome(enough, lang, Len(sources), nDomains)

\* a gate that asks for exactly six sources
simpleGateExact(sources, lang) ==
  LET nDomains == DomainCount(sources)
      enough   == Len(sources) = 6 /\ nDomains >= 4
  IN  GateOutcome(enough, lang, Len(sources), nDomains)

\* a gate that asks for six domains, as the scored gate does
simpleGateSixDomains(sources, lang) ==
  LET nDomains == DomainCount(sources)
      enough   == Len(sources) >= 6 /\ nDomains >= 6
  IN  GateOutcome(enough, lang, Len(sources), nDomains)

simpleGate(sources, lang) ==
  LET nDomains == DomainCount(sources)
      enough   == Len(sources) >= 6 /\ nDomains >= 4
  IN  GateOutcome(enough, lang, Len(sources), nDomains)

(***************************************************************************)
(* Output builders (pipeline.ts 228-247)                                   *)
(***************************************************************************)
\* a default of "en" for a call that names no language
LangOrEnglish(inp) == IF inp.outputLanguage = NoValue THEN "en" ELSE inp.outputLanguage

\* input.outputLanguage ?? "nl"
LangOrDefault(inp) == IF inp.outputLanguage = NoValue THEN "nl" ELSE inp.outputLanguage

\* a recommendation that lists every source
buildRecommendationOfAll(inp, sources) ==
  LET lang == LangOrDefault(inp)
      top  == [i \in 1..Len(sources) |->
                 IF sources[i].title # <<>> THEN sources[i].title
                 ELSE UrlString(sources[i].url)]
  IN  [template |-> IF lang = "en" THEN "Recommendation (based on collected evidence)"
                    ELSE "Aanbeveling (op basis van gevonden evidence)",
       goal |-> inp.goal, decision |-> inp.decision, top |-> top]

\* lines 228-237
buildRecommendationFromEvidence(inp, sources) ==
  LET lang == LangOrDefault(inp)
      five == ArraySlice(sources, 0, 5)
      top  == [i \in 1..Len(five) |->
                 IF five[i].title # <<>> THEN five[i].title
                 ELSE UrlString(five[i].url)]
  IN  [template |-> IF lang = "en" THEN "Recommendation (based on collected evidence)"
                    ELSE "Aanbeveling (op basis van gevonden evidence)",
       goal |-> inp.goal, decision |-> inp.decision, top |-> top]

buildSafeDefault(inp) ==
  LET lang == LangOrDefault(inp)
  IN  [template |-> IF lang = "en"
                    THEN "Insufficient evidence to make a robust recommendation."
                    ELSE "Onvoldoende bewijs om een robuuste aanbeveling te doen.",
       goal |-> inp.goal, decision |-> inp.decision]
(***************************************************************************)
(* JavaScript numbers.  A Number is an IEEE 754 binary64 value; the scored *)
(* gate only makes non-negative finite ones.  Such a value is kept as      *)
(* [m, e], standing for m * 2^e, with m a natural of exactly 53 bits (or   *)
(* zero), and every operation rounds its exact result to the nearest such  *)
(* value, ties to even, as the machine does.  A natural of that width is   *)
(* held as a sequence of limbs, least significant first, in base LimbBase, *)
(* without leading zero limbs.                                             *)
(***************************************************************************)
\* the width of the significand of a binary64 value
MantissaBits == 53

\* 2^n for n up to LimbBits
PowersOfTwo ==
  <<1, 2, 4, 8, 16, 32, 64, 128, 256, 512, 1024, 2048, 4096, 8192, 16384, 32768>>
TwoTo(n) == PowersOfTwo[n + 1]
LimbBits == Len(PowersOfTwo) - 1
LimbBase == TwoTo(LimbBits)

\* the number of bits of a limb
BitsOf(n) == Cardinality({i \in 1..LimbBits : PowersOfTwo[i] <= n})

RECURSIVE BigTrim(_)
BigTrim(x) ==
  IF x # <<>> /\ x[Len(x)] = 0 THEN BigTrim(SubSeq(x, 1, Len(x) - 1)) ELSE x

RECURSIVE BigFromInt(_)
BigFromInt(n) ==
  IF n = 0 THEN <<>> ELSE <<n % LimbBase>> \o BigFromInt(n \div LimbBase)

BigBitLen(x) ==
  IF x = <<>> THEN 0 ELSE LimbBits * (Len(x) - 1) + BitsOf(x[Len(x)])

RECURSIVE BigAddCarry(_, _, _)
BigAddCarry(x, y, c) ==
  IF x = <<>> /\ y = <<>> THEN (IF c = 0 THEN <<>> ELSE <<c>>)
  ELSE LET a == IF x = <<>> THEN 0 ELSE x[1]
           b == IF y = <<>> THEN 0 ELSE y[1]
           s == a + b + c
       IN  <<s % LimbBase>>
             \o BigAddCarry(IF x = <<>> THEN <<>> ELSE Tail(x),
                            IF y = <<>> THEN <<>> ELSE Tail(y), s \div LimbBase)

BigAdd(x, y) == BigAddCarry(x, y, 0)

\* x * k + c for a k below LimbBase
RECURSIVE BigMulSmallCarry(_, _, _)
BigMulSmallCarry(x, k, c) ==
  IF x = <<>> THEN (IF c = 0 THEN <<>> ELSE <<c>>)
  ELSE LET p == x[1] * k + c
       IN  <<p % LimbBase>> \o BigMulSmallCarry(Tail(x), k, p \div LimbBase)

BigMulSmall(x, k) == BigTrim(BigMulSmallCarry(x, k, 0))

RECURSIVE BigMul(_, _)
BigMul(x, y) ==
  IF x = <<>> \/ y = <<>> THEN <<>>
  ELSE LET rest == BigMul(x, Tail(y))
       IN  BigAdd(BigMulSmall(x, y[1]), IF rest = <<>> THEN <<>> ELSE <<0>> \o rest)

\* quotient and remainder of x by a k below LimbBase
RECURSIVE BigDivSmallLimbs(_, _)
BigDivSmallLimbs(x, k) ==
  IF x = <<>> THEN [q |-> <<>>, r |-> 0]
  ELSE LET hi  == BigDivSmallLimbs(Tail(x), k)
           cur == hi.r * LimbBase + x[1]
       IN  [q |-> <<cur \div k>> \o hi.q, r |-> cur % k]

BigDivSmall(x, k) ==
  LET d == BigDivSmallLimbs(x, k) IN [q |-> BigTrim(d.q), r |-> d.r]

\* x * 2^d: whole limbs first, then bit by bit within the limbs, where a
\* limb takes the low bits of its own and the high bits of the one below
BigShiftLeft(x, d) ==
  LET up   == TwoTo(d % LimbBits)
      down == TwoTo(LimbBits - (d % LimbBits))
      n    == Len(x)
      bits == [i \in 1..(n + 1) |->
                 (IF i <= n THEN (x[i] % down) * up ELSE 0)
                   + (IF i > 1 THEN x[i - 1] \div down ELSE 0)]
  IN  IF x = <<>> THEN <<>>
      ELSE [i \in 1..(d \div LimbBits) |-> 0]
             \o (IF bits[n + 1] = 0 THEN SubSeq(bits, 1, n) ELSE bits)

\* x \div 2^d, and whether a bit that was shifted out was set
BigShiftRight(x, d) ==
  LET limbs == Min(d \div LimbBits, Len(x))
      lost  == \E i \in 1..limbs : x[i] # 0
      y     == SubSeq(x, limbs + 1, Len(x))
      n     == Len(y)
      down  == TwoTo(d % LimbBits)
      up    == TwoTo(LimbBits - (d % LimbBits))
      bits  == [i \in 1..n |->
                  (y[i] \div down) + (IF i < n THEN (y[i + 1] % down) * up ELSE 0)]
  IN  [q |-> IF n > 0 /\ bits[n] = 0 THEN SubSeq(bits, 1, n - 1) ELSE bits,
       inexact |-> lost \/ (n > 0 /\ y[1] % down # 0)]

\* x < y for naturals
BigLess(x, y) ==
  \/ Len(x) < Len(y)
  \/ /\ Len(x) = Len(y)
     /\ \E i \in 1..Len(x) :
          /\ x[i] < y[i]
          /\ \A j \in (i + 1)..Len(x) : x[j] = y[j]

Zero == [m |-> <<>>, e |-> 0]

\* the Number nearest to n * 2^e (to n * 2^e plus a little, when inexact):
\* ties go to the even mantissa
RoundToNumber(n, e, inexact) ==
  LET len == BigBitLen(n)
  IN  IF len = 0 THEN Zero
      ELSE IF len <= MantissaBits
      THEN [m |-> BigShiftLeft(n, MantissaBits - len), e |-> e - (MantissaBits - len)]
      ELSE LET d      == len - MantissaBits
               guard  == BigShiftRight(n, d - 1)
               sticky == inexact \/ guard.inexact
               half   == guard.q[1] % 2 = 1
               down   == BigShiftRight(guard.q, 1).q
               up     == half /\ (sticky \/ down[1] % 2 = 1)
               m      == IF up THEN BigAdd(down, <<1>>) ELSE down
           IN  IF BigBitLen(m) > MantissaBits
               THEN [m |-> BigShiftRight(m, 1).q, e |-> e + d + 1]
               ELSE [m |-> m, e |-> e + d]

\* the Number of an integer
FromInt(n) == RoundToNumber(BigFromInt(n), 0, FALSE)

\* a * b
FMul(a, b) ==
  IF a.m = <<>> \/ b.m = <<>> THEN Zero
  ELSE RoundToNumber(BigMul(a.m, b.m), a.e + b.e, FALSE)

\* a + b
FAdd(a, b) ==
  IF a.m = <<>> THEN b
  ELSE IF b.m = <<>> THEN a
  ELSE LET hi == IF a.e >= b.e THEN a ELSE b
           lo == IF a.e >= b.e THEN b ELSE a
       IN  RoundToNumber(BigAdd(BigShiftLeft(hi.m, hi.e - lo.e), lo.m), lo.e, FALSE)

\* a / k for an integer k, 0 < k < LimbBase
FDivInt(a, k) ==
  IF a.m = <<>> THEN Zero
  ELSE LET d == BigDivSmall(BigShiftLeft(a.m, 2 * LimbBits), k)
       IN  RoundToNumber(d.q, a.e - 2 * LimbBits, d.r # 0)

\* a < b and a <= b
FLess(a, b) ==
  IF b.m = <<>> THEN FALSE
  ELSE IF a.m = <<>> THEN TRUE
  ELSE a.e < b.e \/ (a.e = b.e /\ BigLess(a.m, b.m))

FLeq(a, b) == ~FLess(b, a)

\* Math.min and Math.max
FMin(a, b) == IF FLess(b, a) THEN b ELSE a
FMax(a, b) == IF FLess(a, b) THEN b ELSE a

\* the value of a decimal literal num / den, which is read as the Number
\* nearest to it
Literal(num, den) == FDivInt(FromInt(num), den)

One == FromInt(1)

\* the literals of the scored gate: 0.45, 0.5, 0.55 and 0.65
N0_45 == Literal(45, 100)
N0_5  == Literal(5, 10)
N0_55 == Literal(55, 100)
N0_65 == Literal(65, 100)

(***************************************************************************)
(* Scored gate (src/unnamed/part_000 53-154).  Scores, averages and the    *)
(* low-information ratio are Numbers, computed operation by operation as   *)
(* the code computes them.                                                 *)
(***************************************************************************)
\* Math.max(min, Math.min(max, n))
clamp(n, min, max) == FMax(min, FMin(max, n))

\* the number of distinct hostnames (www. stripped) of the urls that parse;
\* the empty hostname of a file: url is one of them
uniqueDomains(urls) ==
  Cardinality({StripWww(hostname(urls[i])) :
                 i \in {j \in 1..Len(urls) : UrlParses(urls[j])}})

\* lines 75-95: 0.45 * clamp(snippetLen / 300) + 0.55 * clamp(contentLen / 2500)
scoreOne(source) ==
  LET snippetLen   == Len(Trim(source.snippet))
      contentLen   == Len(Trim(source.content))
      snippetScore == clamp(FDivInt(FromInt(snippetLen), 300), Zero, One)
      contentScore == clamp(FDivInt(FromInt(contentLen), 2500), Zero, One)
  IN  [score |-> FAdd(FMul(N0_45, snippetScore),
                      FMul(N0_55, contentScore)),
       breakdown |-> [snippet |-> snippetScore, content |-> contentScore]]

\* scored.sort((a, b) => b.score - a.score): descending, and stable
SortByScoreDesc(scored) ==
  LET n == Len(scored)
      before(i, j) == \/ FLess(scored[j].score, scored[i].score)
                      \/ (scored[i].score = scored[j].score /\ i < j)
      rank == [i \in 1..n |-> Cardinality({j \in 1..n : before(j, i)})] \o <<>>
  IN  [k \in 1..n |-> scored[CHOOSE i \in 1..n : rank[i] = k - 1]] \o <<>>

\* scored.reduce((sum, s) => sum + s.score, 0): from the left, starting at 0
RECURSIVE SumScores(_)
SumScores(scored) ==
  IF scored = <<>> THEN Zero
  ELSE LET sum == SumScores(SubSeq(scored, 1, Len(scored) - 1))
       IN  FAdd(sum, scored[Len(scored)].score)

\* a ratio that is 0 when there is no source
LowInfoRatioOfNone(lowInfoCount, sourceCount) ==
  IF sourceCount = 0 THEN Zero
  ELSE FDivInt(FromInt(lowInfoCount), sourceCount)

\* line 133
LowInfoRatio(lowInfoCount, sourceCount) ==
  IF sourceCount = 0 THEN One
  ELSE FDivInt(FromInt(lowInfoCount), sourceCount)

\* lines 99-106: { ...s, score, scoreBreakdown }
WithScore(source, one) ==
  [score |-> one.score, scoreBreakdown |-> one.breakdown] @@ source

\* lines 110-142: the metrics of the sorted list
ScoreMetrics(scored) ==
  LET sourceCount == Len(scored)
      domainCount == uniqueDomains([i \in 1..Len(scored) |-> scored[i].url])
      avgScore    == IF sourceCount = 0 THEN Zero
                     ELSE FDivInt(SumScores(scored), sourceCount)
      topSourceScore == IF sourceCount > 0 THEN scored[1].score ELSE Zero
      top3        == ArraySlice(scored, 0, 3)
      top3AvgScore == IF Len(top3) = 0 THEN Zero
                      ELSE FDivInt(SumScores(top3), Len(top3))
      lowInfoCount ==
        Len(SelectSeq(scored,
              LAMBDA s : Len(Trim(s.content)) < 400 \/ Len(Trim(s.snippet)) < 80))
      lowInfoRatio == LowInfoRatio(lowInfoCount, sourceCount)
  IN  [sources |-> sourceCount, uniqueDomains |-> domainCount,
       avgScore |-> avgScore, topSourceScore |-> topSourceScore,
       top3AvgScore |-> top3AvgScore, lowInfoRatio |-> lowInfoRatio]

\* lines 144-153: passed, and the object returned
ScoreResult(scored, metrics) ==
  LET passed ==
        /\ metrics.sources >= 12
        /\ metrics.uniqueDomains >= 6
        /\ FLeq(N0_45, metrics.avgScore)
        /\ FLeq(N0_65, metrics.topSourceScore)
        /\ FLeq(N0_55, metrics.top3AvgScore)
        /\ FLeq(metrics.lowInfoRatio, N0_5)
  IN  [passed |-> passed, metrics |-> metrics, scored |-> scored]

\* lines 108-153: from the sort on
ScoreSorted(scored) == ScoreResult(scored, ScoreMetrics(scored))

scoreSourcesAndGate(sources) ==
  ScoreSorted(SortByScoreDesc(
    [i \in 1..Len(sources) |-> WithScore(sources[i], scoreOne(sources[i]))] \o <<>>))

(***************************************************************************)
(* Environment of one call: the inputs and what the searcher may return    *)
(***************************************************************************)
\* a search result as the tests build it (pipeline.test.ts mkSource)
mkSource(url, title) ==
  [url |-> url, title |-> title, snippet |-> <<115, 110, 105, 112, 112, 101,
      116, 58>> \o title,
   content |-> <<99, 111, 110, 116, 101, 110, 116, 58>> \o title,
       provider |-> "tavily"]

U_a1     == <<<<104, 116, 116, 112, 115, 58, 47, 47>>, <<97, 46, 99, 111,
    109>>, <<47, 49>>>>
U_a2     == <<<<104, 116, 116, 112, 115, 58, 47, 47>>, <<97, 46, 99, 111,
    109>>, <<47, 50>>>>
U_b1     == <<<<104, 116, 116, 112, 115, 58, 47, 47>>, <<119, 119, 119, 46>>,
    <<98, 46, 111, 114, 103>>, <<47, 49>>>>
U_b2     == <<<<104, 116, 116, 112, 58, 47, 47>>, <<98, 46, 111, 114, 103>>,
    <<47, 50>>>>
U_c1     == <<<<104, 116, 116, 112, 115, 58, 47, 47>>, <<99, 46, 110, 101,
    116>>, <<47, 49>>>>
U_d1     == <<<<104, 116, 116, 112, 115, 58, 47, 47>>, <<68, 46, 105, 111>>,
    <<47, 49>>>>
U_e1     == <<<<104, 116, 116, 112, 115, 58, 47, 47>>, <<101, 46, 100, 101,
    118>>, <<47, 49>>>>
U_f1     == <<<<104, 116, 116, 112, 115, 58, 47, 47>>, <<102, 46, 103, 111,
    118>>, <<47, 49>>>>
U_g1     == <<<<104, 116, 116, 112, 115, 58, 47, 47>>, <<103, 46, 101, 100,
    117>>, <<47, 49>>>>
U_h1     == <<<<104, 116, 116, 112, 115, 58, 47, 47>>, <<104, 46, 105, 110,
    116>>, <<47, 49>>>>
U_shared == <<<<104, 116, 116, 112, 115, 58, 47, 47>>, <<101, 120, 97, 109,
    112, 108, 101, 46, 111, 114, 103>>, <<47, 115, 104, 97, 114, 101, 100>>>>
U_noScheme == <<<<97, 46, 99, 111, 109>>, <<47, 120>>>>       \* new URL throws
U_file   == <<<<102, 105, 108, 101, 58, 47, 47>>, <<47, 116, 109, 112, 47, 120>>>>  \* parses, hostname is empty
U_empty  == <<>>                       \* the empty string

\* six sources with a url, on three domains
Response1 ==
  <<mkSource(U_a1, <<67, 108, 111, 117, 100, 32, 109, 105, 103, 114, 97, 116,
      105, 111, 110, 32, 99, 111, 115, 116, 32, 98, 101, 110, 99, 104, 109,
      97, 114, 107, 115>>),
    mkSource(U_b1, <<86, 101, 110, 100, 111, 114, 32, 108, 111, 99, 107, 45,
        105, 110, 32, 114, 105, 115, 107, 115, 32, 119, 105, 116, 104, 32, 99,
        108, 111, 117, 100>>),
    mkSource(U_shared, <<83, 104, 97, 114, 101, 100, 32, 85, 82, 76>>),
    mkSource(U_empty, <<79, 114, 112, 104, 97, 110>>),
    mkSource(U_a2, <<67, 108, 111, 117, 100, 32, 112, 114, 105, 99, 105, 110,
        103, 32, 99, 97, 108, 99, 117, 108, 97, 116, 111, 114, 32, 119, 97,
        108, 107, 116, 104, 114, 111, 117, 103, 104>>),
    mkSource(U_b2, <<77, 105, 103, 114, 97, 116, 105, 111, 110, 32, 112, 108,
        97, 121, 98, 111, 111, 107>>),
    mkSource(U_a1, <<67, 108, 111, 117, 100, 32, 99, 111, 112, 121>>),
    mkSource(U_file, <<76, 111, 99, 97, 108, 32, 110, 111, 116, 101, 115>>)>>
\* eight sources on seven domains
Response2 ==
  <<mkSource(U_c1, <<76, 97, 116, 101, 110, 99, 121, 32, 116, 114, 97, 100,
      101, 111, 102, 102, 115, 58, 32, 101, 100, 103, 101, 32, 99, 97, 99,
      104, 105, 110, 103>>),
    mkSource(U_shared, <<83, 104, 97, 114, 101, 100, 32, 99, 111, 112, 121>>),
    mkSource(U_d1, <<80, 114, 105, 99, 105, 110, 103, 32, 109, 111, 100, 101,
        108, 115, 32, 99, 111, 109, 112, 97, 114, 101, 100>>),
    mkSource(U_e1, <<>>),
    mkSource(U_noScheme, <<66, 114, 111, 107, 101, 110, 32, 108, 105, 110,
        107>>),
    mkSource(U_f1, <<71, 111, 118>>),
    mkSource(U_g1, <<69, 100, 117>>),
    mkSource(U_h1, <<73, 110, 116>>)>>

\* the result lists a searcher call may return, by name
Response(name) ==
  CASE name = "R1" -> Response1
    [] name = "R2" -> Response2
    [] name = "empty" -> <<>>

Responses == {"R1", "R2"}

\* the errors a searcher call may reject with
SearchErrors == {"HTTP 429"}

LongGoal == Rep(88, LongLen)

InputShort ==
  [goal |-> <<84, 101, 115, 116>>, decision |-> <<80, 105, 99, 107, 32, 111,
      112, 116, 105, 111, 110, 32, 65, 32, 118, 115, 32, 66>>,
      outputLanguage |-> NoValue]
InputLong ==
  [goal |-> LongGoal, decision |-> <<80, 105, 99, 107, 32, 111, 112, 116, 105,
      111, 110, 32, 65, 32, 118, 115, 32, 66>>, outputLanguage |-> "en"]
InputEmpty ==
  [goal |-> <<>>, decision |-> <<>>, outputLanguage |-> "nl"]

\* the environment of the process: process.env.VITEST and
\* process.env.RESEARCH_LOGS, and the console: consoleThrowsAt = k > 0 when
\* the k-th call of console.log throws, 0 when none does
EnvTest == [VITEST |-> "true", RESEARCH_LOGS |-> NoValue, consoleThrowsAt |-> 0]
EnvLogs == [VITEST |-> NoValue, RESEARCH_LOGS |-> NoValue, consoleThrowsAt |-> 0]
EnvOptOut == [VITEST |-> NoValue, RESEARCH_LOGS |-> "0", consoleThrowsAt |-> 0]
EnvConsoleThrows(k) == [EnvLogs EXCEPT !.consoleThrowsAt = k]

\* the calls of runResearchPipeline the model makes: the input, and
\* deps.includeDebug ("undefined" when it is not given), under an environment
Calls ==
  {[input |-> InputShort, includeDebug |-> "true",      env |-> EnvTest],
   [input |-> InputShort, includeDebug |-> "undefined", env |-> EnvLogs],
   [input |-> InputLong,  includeDebug |-> "false",     env |-> EnvTest],
   [input |-> InputLong,  includeDebug |-> "true",      env |-> EnvLogs],
   [input |-> InputEmpty, includeDebug |-> "true",      env |-> EnvTest],
   [input |-> InputEmpty, includeDebug |-> "false",     env |-> EnvLogs]}

(***************************************************************************)
(* logEvent (pipeline.ts 352-357)                                          *)
(***************************************************************************)
logEvent(lg, event, payload) ==
  LET isTest      == env.VITEST # NoValue /\ env.VITEST # ""
      logsEnabled == env.RESEARCH_LOGS # "0"
  IN  IF isTest \/ ~logsEnabled THEN lg
      ELSE Append(lg, [event |-> event, payload |-> payload])

\* line 356 is reached and console.log throws; lg is what it has written
ConsoleThrows(lg) ==
  LET isTest      == env.VITEST # NoValue /\ env.VITEST # ""
      logsEnabled == env.RESEARCH_LOGS # "0"
  IN  ~(isTest \/ ~logsEnabled) /\ env.consoleThrowsAt = Len(lg) + 1

(***************************************************************************)
(* History events                                                          *)
(***************************************************************************)
\* a stage is entered; n is the number of queries of the pass it starts
StageEvent(name, n) ==
  [type |-> "stage", name |-> name, q |-> <<>>, results |-> "", n |-> n]
\* the searcher is called with q
CallEvent(pass, q) ==
  [type |-> "call", name |-> pass, q |-> q, results |-> "", n |-> 0]
\* the searcher returned the list named r
ReturnEvent(pass, r) ==
  [type |-> "return", name |-> pass, q |-> <<>>, results |-> r, n |-> 0]
\* the searcher threw e
ThrowEvent(pass, e) ==
  [type |-> "throw", name |-> pass, q |-> <<>>, results |-> e, n |-> 0]

\* console.log threw in logEvent
SinkThrowEvent(pass) ==
  [type |-> "sinkthrow", name |-> pass, q |-> <<>>, results |-> "", n |-> 0]

Passes == {"seed", "expand", "authority"}
StageOf(pass) ==
  CASE pass = "seed" -> "SEED" [] pass = "expand" -> "EXPAND"
    [] pass = "authority" -> "AUTHORITY"

(***************************************************************************)
(* The call of runResearchPipeline as a frame: the variables of the call.  *)
(***************************************************************************)
Frame ==
  [pc |-> pc, queries |-> queries, qi |-> qi, qDebug |-> qDebug,
   allSources |-> allSources, seed |-> seed, expand |-> expand,
   authority |-> authority, debugPasses |-> debugPasses,
   inflight |-> inflight, output |-> output, error |-> error, log |-> log,
   hist |-> hist]

SetFrame(f) ==
  /\ pc' = f.pc
  /\ queries' = f.queries
  /\ qi' = f.qi
  /\ qDebug' = f.qDebug
  /\ allSources' = f.allSources
  /\ seed' = f.seed
  /\ expand' = f.expand
  /\ authority' = f.authority
  /\ debugPasses' = f.debugPasses
  /\ inflight' = f.inflight
  /\ output' = f.output
  /\ error' = f.error
  /\ log' = f.log
  /\ hist' = f.hist

\* logEvent threw: neither runTavilyPass (156, 172) nor runResearchPipeline
\* catches it, so the call rejects with the console's error
LogEventThrew(f) ==
  [f EXCEPT !.pc = "failed", !.error = "console.log threw",
            !.hist = Append(@, SinkThrowEvent(f.pc))]

\* a loop body that hands the searcher the normalized query before the cut
IssueQueryUncut(f) ==
  LET raw == f.queries[f.qi]
      t   == truncateTavilyQuery(raw, TAVILY_QUERY_MAX)
  IN  [f EXCEPT
         !.qDebug = Append(@, t),
         !.inflight = Some(normalizeQuery(raw)),
         !.hist = Append(@, CallEvent(f.pc, normalizeQuery(raw)))]

\* runTavilyPass, lines 153-165: the body of the for loop up to the await
IssueQuery(f) ==
  LET raw == f.queries[f.qi]
      t   == truncateTavilyQuery(raw, TAVILY_QUERY_MAX)
  IN  IF ConsoleThrows(f.log)
      THEN LogEventThrew([f EXCEPT !.qDebug = Append(@, t)])
      ELSE
      [f EXCEPT
         !.qDebug = Append(@, t),
         !.log = logEvent(@, "tavily.query",
                   [pass |-> f.pc, truncated |-> t.truncated,
                    originalLength |-> t.originalLength,
                    usedLength |-> t.usedLength, hash |-> t.hash,
                    qPreview |-> Slice(t.q, 0, 120)]),
         !.inflight = Some(t.q),
         !.hist = Append(@, CallEvent(f.pc, t.q))]

\* a pass that keeps the last source of each url instead of the first
PassResultLastWins(f) ==
  LET deduped  == dedupeLastWins(f.allSources)
      nDomains == DomainCount(deduped)
  IN  [sources |-> deduped,
       debug |-> [pass |-> f.pc, queries |-> f.qDebug,
                  sources |-> Len(deduped), uniqueDomains |-> nDomains]]

\* runTavilyPass, lines 169-187: what the pass returns once the loop is over
PassResult(f) ==
  LET deduped  == dedupeSourcesByUrl(f.allSources)
      nDomains == DomainCount(deduped)
  IN  [sources |-> deduped,
       debug |-> [pass |-> f.pc, queries |-> f.qDebug,
                  sources |-> Len(deduped), uniqueDomains |-> nDomains]]

PassCompleteLog(f, res) ==
  logEvent(f.log, "tavily.pass.complete",
           [pass |-> f.pc, queries |-> Len(f.queries),
            sources |-> res.debug.sources, uniqueDomains |-> res.debug.uniqueDomains])

\* runResearchPipeline, line 80
MergeSources(seedS, expandS, authorityS) ==
  dedupeSourcesByUrl(seedS \o expandS \o authorityS)

\* an output that always carries a debug field, empty when not asked for
BuildOutputEmptyDebug(gate, recommendation, mergedSources, passes) ==
  LET base == [decisionStatus |-> gate.decisionStatus,
               recommendationOrSafeDefault |-> recommendation,
               confidenceOverview |-> [overall |-> gate.confidence,
                                       rationale |-> gate.confidenceRationale],
               sources |-> mergedSources]
  IN  IF includeDebug = "true"
      THEN [debug |-> [passes |-> passes]] @@ base
      ELSE [debug |-> [passes |-> <<>>]] @@ base

\* runResearchPipeline, lines 89-98: the object returned
BuildOutput(gate, recommendation, mergedSources, passes) ==
  LET base == [decisionStatus |-> gate.decisionStatus,
               recommendationOrSafeDefault |-> recommendation,
               confidenceOverview |-> [overall |-> gate.confidence,
                                       rationale |-> gate.confidenceRationale],
               sources |-> mergedSources]
  IN  IF includeDebug = "true"
      THEN [debug |-> [passes |-> passes]] @@ base
      ELSE base

\* runResearchPipeline, lines 80-98: merge, gate and return
Finish(f) ==
  LET mergedSources == MergeSources(Get(f.seed).sources, Get(f.expand).sources,
                                    Get(f.authority).sources)
      gate == simpleGate(mergedSources, input.outputLanguage)
      recommendation ==
        IF gate.decisionStatus = "EVIDENCE_SUFFICIENT"
        THEN buildRecommendationFromEvidence(input, mergedSources)
        ELSE buildSafeDefault(input)
  IN  [f EXCEPT
         !.pc = "done",
         !.output = Some(BuildOutput(gate, recommendation, mergedSources, f.debugPasses)),
         !.hist = @ \o <<StageEvent("GATE", 0), StageEvent("DONE", 0)>>]

\* entering a pass with its queries: runTavilyPass, lines 149-150
EnterPass(f, pass, qs) ==
  [f EXCEPT !.pc = pass, !.queries = qs, !.qi = 1, !.qDebug = <<>>,
            !.allSources = <<>>, !.hist = Append(@, StageEvent(StageOf(pass), Len(qs)))]

\* The synchronous run of the call from the top of the for loop of the
\* current pass until the next await of the searcher, or until the call
\* returns: runTavilyPass 152-187 and runResearchPipeline 70-98.
RECURSIVE RunFrom(_)

\* a run that leaves the expand pass out when the seed pass found nothing
RunFromSkipExpand(f) ==
  IF f.qi <= Len(f.queries) THEN IssueQuery(f)
  ELSE
    LET res  == PassResult(f)
        done == [f EXCEPT !.log = PassCompleteLog(f, res),
                          !.debugPasses = Append(@, res.debug)]
    IN  CASE f.pc = "seed" /\ res.sources # <<>> ->
               RunFrom(EnterPass([done EXCEPT !.seed = Some(res)], "expand",
                                 buildExpandQueries(input, res.sources)))
          [] f.pc = "seed" /\ res.sources = <<>> ->
               RunFrom(EnterPass([done EXCEPT !.seed = Some(res), !.expand = Some(res)],
                                 "authority", buildAuthorityQueries(input, <<>>)))
          [] f.pc = "expand" ->
               RunFrom(EnterPass([done EXCEPT !.expand = Some(res)], "authority",
                                 buildAuthorityQueries(input,
                                   Get(f.seed).sources \o res.sources)))
          [] f.pc = "authority" ->
               Finish([done EXCEPT !.authority = Some(res)])

RunFrom(f) ==
  IF f.qi <= Len(f.queries) THEN IssueQuery(f)
  ELSE IF ConsoleThrows(f.log) THEN LogEventThrew(f)
  ELSE
    LET res  == PassResult(f)
        done == [f EXCEPT !.log = PassCompleteLog(f, res),
                          !.debugPasses = Append(@, res.debug)]
    IN  CASE f.pc = "seed" ->
               RunFrom(EnterPass([done EXCEPT !.seed = Some(res)], "expand",
                                 buildExpandQueries(input, res.sources)))
          [] f.pc = "expand" ->
               RunFrom(EnterPass([done EXCEPT !.expand = Some(res)], "authority",
                                 buildAuthorityQueries(input,
                                   Get(f.seed).sources \o res.sources)))
          [] f.pc = "authority" ->
               Finish([done EXCEPT !.authority = Some(res)])

(***************************************************************************)
(* Actions                                                                 *)
(***************************************************************************)
\* locals that survive from one call to the next: debugPasses declared at
\* module level instead of inside runResearchPipeline
StaleFrame ==
  [pc |-> "idle", queries |-> <<>>, qi |-> 1, qDebug |-> <<>>,
   allSources |-> <<>>, seed |-> None, expand |-> None, authority |-> None,
   debugPasses |-> debugPasses, inflight |-> None, output |-> None,
   error |-> NoValue, log |-> log, hist |-> <<>>]

\* the locals of a call that has not run yet (runResearchPipeline line 66
\* and the declarations of runTavilyPass); the console is not the call's
FreshFrame ==
  [pc |-> "idle", queries |-> <<>>, qi |-> 1, qDebug |-> <<>>,
   allSources |-> <<>>, seed |-> None, expand |-> None, authority |-> None,
   debugPasses |-> <<>>, inflight |-> None, output |-> None,
   error |-> NoValue, log |-> log, hist |-> <<>>]

\* runResearchPipeline is called: lines 66-69, up to the first await
Begin == RunFrom(EnterPass(FreshFrame, "seed", buildSeedQueries(input)))

Start ==
  /\ pc = "idle"
  /\ \E next \in {Begin} : SetFrame(next)
  /\ UNCHANGED <<input, includeDebug, env, hits, rvars, hvars>>

\* what the searcher may answer to the query in flight
Answers == IF hits < MaxHits THEN Responses \cup {"empty"} ELSE {"empty"}

\* a loop that takes the results and does not move on to the next query
ResumeSameQuery(r) ==
  RunFrom([Frame EXCEPT
             !.allSources = @ \o Response(r),
             !.inflight = None,
             !.hist = Append(@, ReturnEvent(pc, r))])

\* runTavilyPass 165-166: the awaited call resolved with the results named
\* r; the call of the pipeline runs on to its next await or to its return
Resume(r) ==
  RunFrom([Frame EXCEPT
             !.allSources = @ \o Response(r),
             !.qi = @ + 1,
             !.inflight = None,
             !.hist = Append(@, ReturnEvent(pc, r))])

\* a pass that catches the rejection and carries on without results
RejectSwallowed(e) ==
  RunFrom([Frame EXCEPT
             !.qi = @ + 1,
             !.inflight = None,
             !.hist = Append(@, ThrowEvent(pc, e))])

\* the awaited searcher call rejected with e: nothing catches it
\* (no try/catch in runTavilyPass or runResearchPipeline), the call rejects
Reject(e) ==
  [Frame EXCEPT !.pc = "failed", !.error = e, !.inflight = None,
                !.hist = Append(@, ThrowEvent(pc, e))]

SearcherResolve ==
  /\ pc \in Passes
  /\ inflight # None
  /\ \E r \in Answers :
       /\ \E next \in {Resume(r)} : SetFrame(next)
       /\ hits' = IF r # "empty" THEN hits + 1 ELSE hits
  /\ UNCHANGED <<input, includeDebug, env, rvars, hvars>>

SearcherReject ==
  /\ pc \in Passes
  /\ inflight # None
  /\ \E e \in SearchErrors : \E next \in {Reject(e)} : SetFrame(next)
  /\ UNCHANGED <<input, includeDebug, env, hits, rvars, hvars>>

\* no call has been made yet, under one of the calls c
Idle(c) ==
  /\ input = c.input
  /\ includeDebug = c.includeDebug
  /\ env = c.env
  /\ pc = "idle"
  /\ queries = <<>>
  /\ qi = 1
  /\ qDebug = <<>>
  /\ allSources = <<>>
  /\ seed = None
  /\ expand = None
  /\ authority = None
  /\ debugPasses = <<>>
  /\ inflight = None
  /\ output = None
  /\ error = NoValue
  /\ log = <<>>
  /\ hist = <<>>
  /\ hits = 0

PipelineInit == \E c \in Calls : Idle(c)

PureIdle == memo = <<>> /\ run1 = None
TruncIdle == tq = <<>> /\ tres = None
GateIdle == gsources = <<>> /\ gsimple = None
\* no harness has been used
HarnessIdle ==
  /\ TruncIdle
  /\ GateIdle
  /\ ktext = <<>> /\ kres = None
  /\ dsources = <<>> /\ dres = None
  /\ ssites = <<>> /\ skinds = <<>> /\ sres = None

Init == PipelineInit /\ PureIdle /\ HarnessIdle

Next == Start \/ SearcherResolve \/ SearcherReject

Spec == Init /\ [][Next]_vars

\* The run under a searcher whose every call returns or fails in the end: a
\* call in flight is answered, by a rejection or by a result.
SpecLive == Init /\ [][Next]_vars /\ WF_vars(SearcherReject \/ SearcherResolve)

(***************************************************************************)
(* Two calls in a row against a searcher that is a pure function of its    *)
(* query string: memo holds what it answered to each query so far.         *)
(***************************************************************************)
\* what a call of the searcher with a query it has not seen may end with:
\* a result list, or an error
PureAnswers ==
  {[ok |-> TRUE, r |-> r] :
     r \in IF hits < MaxPureHits THEN Responses \cup {"empty"} ELSE {"empty"}}
    \cup {[ok |-> FALSE, r |-> e] : e \in SearchErrors}

\* the queries the pure searcher has been asked
Asked == {memo[i].q : i \in DOMAIN memo}

\* the answers of the pure searcher to the query q: what it answered before
PureAnswersTo(q) ==
  IF q \in Asked THEN {memo[i].a : i \in {j \in DOMAIN memo : memo[j].q = q}}
  ELSE PureAnswers

Remember(q, a) == IF q \in Asked THEN memo ELSE Append(memo, [q |-> q, a |-> a])

PureSearcherResolve ==
  /\ pc \in Passes
  /\ inflight # None
  /\ \E a \in PureAnswersTo(Get(inflight)) :
       /\ a.ok
       /\ \E next \in {Resume(a.r)} : SetFrame(next)
       /\ hits' = IF Get(inflight) \notin Asked /\ a.r # "empty"
                  THEN hits + 1 ELSE hits
       /\ memo' = Remember(Get(inflight), a)
  /\ UNCHANGED <<input, includeDebug, env, run1, hvars>>

PureSearcherReject ==
  /\ pc \in Passes
  /\ inflight # None
  /\ \E a \in PureAnswersTo(Get(inflight)) :
       /\ ~a.ok
       /\ \E next \in {Reject(a.r)} : SetFrame(next)
       /\ memo' = Remember(Get(inflight), a)
  /\ UNCHANGED <<input, includeDebug, env, hits, run1, hvars>>

\* the query strings handed to the searcher so far, in order
QueriesSent ==
  LET calls == SelectSeq(hist, LAMBDA e : e.type = "call")
  IN  [i \in 1..Len(calls) |-> calls[i].q]

\* the caller calls runResearchPipeline again, with the same input and the
\* same searcher, once the first call has resolved or rejected
StartAgain ==
  /\ pc \in {"done", "failed"}
  /\ run1 = None
  /\ run1' = Some([output |-> output, error |-> error, queries |-> QueriesSent])
  /\ \E next \in {Begin} : SetFrame(next)
  /\ UNCHANGED <<input, includeDebug, env, hits, memo, hvars>>

\* the calls that ask for the debug records
PureCalls == {c \in Calls : c.includeDebug = "true"}

PureInit == (\E c \in PureCalls : Idle(c)) /\ PureIdle /\ HarnessIdle

PureNext == Start \/ PureSearcherResolve \/ PureSearcherReject \/ StartAgain

SpecPure == PureInit /\ [][PureNext]_vars

(***************************************************************************)
(* Harness for truncateTavilyQuery: a query is put together from segments, *)
(* runs of "x" and separators, and truncated under several values of       *)
(* maxLen.                                                                 *)
(***************************************************************************)
TruncSegments ==
  {Rep(120, 399), Rep(120, 284), Rep(120, 111), <<120>>,
   <<32>>, <<32, 0, 9>>}                       \* " " and " \0\t"
MaxLens == {2, 50, TAVILY_QUERY_MAX}

\* the query the harness has handed over
TruncQuery == Join(tq, <<>>)

Truncate ==
  /\ Len(tq) < MaxSegs
  /\ \E seg \in TruncSegments :
       /\ tq' = Append(tq, seg)
       /\ tres' = Some([m \in MaxLens |->
                          truncateTavilyQuery(Join(Append(tq, seg), <<>>), m)])
  /\ UNCHANGED <<pvars, rvars, gsources, gsimple, kvars, dvars, svars>>

\* the harnesses run with no call of the pipeline under way
NoCall == [input |-> InputEmpty, includeDebug |-> "undefined", env |-> EnvTest]

TruncInit == Idle(NoCall) /\ PureIdle /\ HarnessIdle

SpecTrunc == TruncInit /\ [][Truncate]_vars

(***************************************************************************)
(* Harness for simpleGate: a source list grows by one source with a new    *)
(* url at a time, and the gate is evaluated on each list.                  *)
(***************************************************************************)
GatePool ==
  {mkSource(U_a1, <<67, 108, 111, 117, 100, 32, 109, 105, 103, 114, 97, 116,
      105, 111, 110, 32, 99, 111, 115, 116, 32, 98, 101, 110, 99, 104, 109,
      97, 114, 107, 115>>),
   mkSource(U_a2, <<67, 108, 111, 117, 100, 32, 112, 114, 105, 99, 105, 110,
       103, 32, 99, 97, 108, 99, 117, 108, 97, 116, 111, 114, 32, 119, 97,
       108, 107, 116, 104, 114, 111, 117, 103, 104>>),
   mkSource(U_b1, <<86, 101, 110, 100, 111, 114, 32, 108, 111, 99, 107, 45,
       105, 110, 32, 114, 105, 115, 107, 115, 32, 119, 105, 116, 104, 32, 99,
       108, 111, 117, 100>>),
   mkSource(U_c1, <<76, 97, 116, 101, 110, 99, 121, 32, 116, 114, 97, 100,
       101, 111, 102, 102, 115, 58, 32, 101, 100, 103, 101, 32, 99, 97, 99,
       104, 105, 110, 103>>),
   mkSource(U_d1, <<80, 114, 105, 99, 105, 110, 103, 32, 109, 111, 100, 101,
       108, 115, 32, 99, 111, 109, 112, 97, 114, 101, 100>>),
   mkSource(U_noScheme, <<66, 114, 111, 107, 101, 110, 32, 108, 105, 110,
       107>>),
   mkSource(U_file, <<76, 111, 99, 97, 108, 32, 110, 111, 116, 101, 115>>)}

GateAdd ==
  /\ Len(gsources) < MaxGateLen
  /\ \E s \in GatePool :
       /\ \A i \in DOMAIN gsources : gsources[i].url # s.url
       /\ gsources' = Append(gsources, s)
       /\ gsimple' = Some(simpleGate(Append(gsources, s), input.outputLanguage))
  /\ UNCHANGED <<pvars, rvars, tq, tres, kvars, dvars, svars>>

\* the output languages a caller may ask for: absent, "en", "nl"
GateCalls == {c \in Calls : c.env = EnvTest}

GateInit == (\E c \in GateCalls : Idle(c)) /\ PureIdle /\ HarnessIdle

SpecGate == GateInit /\ [][GateAdd]_vars

(***************************************************************************)
(* Harness for extractKeywordsDeterministic: a text is put together from   *)
(* words, and the keywords are extracted under several values of max.      *)
(***************************************************************************)
KeywordWords ==
  {<<67, 108, 111, 117, 100>>, <<99, 108, 111, 117, 100, 44, 32, 116, 104,
      101, 32, 97, 112, 105>>, <<122, 101, 116, 97>>, <<97, 108, 112, 104,
      97>>, <<101, 100, 103, 101, 45, 99, 97, 99, 104, 101, 32, 69, 118, 105,
      100, 101, 110, 99, 101, 58>>,
   <<9, 52, 107, 233, 116, 117, 100, 101, 32>>}     \* "\t4k\u00e9tude "
KeywordMaxes == {0, 1, 2, 10}

\* the text the harness has handed over
KeywordText == Join(ktext, <<32>>)

ExtractKeywords ==
  /\ Len(ktext) < MaxWords
  /\ \E w \in KeywordWords :
       /\ ktext' = Append(ktext, w)
       /\ kres' = Some([m \in KeywordMaxes |->
                          extractKeywordsDeterministic(
                            Join(Append(ktext, w), <<32>>), m)])
  /\ UNCHANGED <<pvars, rvars, tq, tres, gsources, gsimple, dvars, svars>>

KeywordInit == Idle(NoCall) /\ PureIdle /\ HarnessIdle

SpecKeyword == KeywordInit /\ [][ExtractKeywords]_vars

(***************************************************************************)
(* Telemetry: a call with telemetry disabled, then the same call with      *)
(* telemetry enabled, against the same pure searcher.  The console either  *)
(* takes every event or throws at one of them.                             *)
(***************************************************************************)
\* the environments in which logEvent returns before line 356
TelemetryOff == {EnvTest, EnvOptOut}

\* the environments in which logEvent calls console.log: a console that
\* returns, one that throws at the first "tavily.query" and one that throws
\* at the "tavily.pass.complete" of the seed pass (3 queries, 4th event)
TelemetryOn == {EnvLogs, EnvConsoleThrows(1), EnvConsoleThrows(4)}

SinkCalls ==
  {[input |-> InputShort, includeDebug |-> "true", env |-> e] : e \in TelemetryOff}

\* the first call is over; telemetry is enabled for the call to come
TurnTelemetryOn ==
  /\ pc \in {"done", "failed"}
  /\ run1 = None
  /\ run1' = Some([output |-> output, error |-> error, queries |-> QueriesSent])
  /\ env' \in TelemetryOn
  /\ \E next \in {FreshFrame} : SetFrame(next)
  /\ UNCHANGED <<input, includeDebug, hits, memo, hvars>>

SinkNext == Start \/ PureSearcherResolve \/ PureSearcherReject \/ TurnTelemetryOn

SinkInit == (\E c \in SinkCalls : Idle(c)) /\ PureIdle /\ HarnessIdle

SpecSink == SinkInit /\ [][SinkNext]_vars

(***************************************************************************)
(* Output language: a call, then the same call with another                *)
(* outputLanguage, against the same pure searcher.                         *)
(***************************************************************************)
\* the first call names no outputLanguage, or "nl"
LanguageCalls ==
  {[input |-> [InputShort EXCEPT !.outputLanguage = l],
    includeDebug |-> "true", env |-> EnvTest] : l \in {NoValue, "nl"}}

\* the language of the second call: "nl" after none, "en" after "nl"
OtherLanguage(l) == IF l = NoValue THEN "nl" ELSE "en"

\* the first call is over; the call to come differs in outputLanguage only
ChangeLanguage ==
  /\ pc \in {"done", "failed"}
  /\ run1 = None
  /\ run1' = Some([output |-> output, error |-> error, queries |-> QueriesSent,
                   outputLanguage |-> input.outputLanguage])
  /\ input' = [input EXCEPT !.outputLanguage = OtherLanguage(@)]
  /\ \E next \in {FreshFrame} : SetFrame(next)
  /\ UNCHANGED <<includeDebug, env, hits, memo, hvars>>

LanguageNext == Start \/ PureSearcherResolve \/ PureSearcherReject \/ ChangeLanguage

LanguageInit == (\E c \in LanguageCalls : Idle(c)) /\ PureIdle /\ HarnessIdle

SpecLanguage == LanguageInit /\ [][LanguageNext]_vars

(***************************************************************************)
(* Harness for dedupeSourcesByUrl: a source list grows by one source at a  *)
(* time, with urls that repeat, and is deduplicated.                       *)
(***************************************************************************)
\* sources with the same url, with urls that differ in the case of one
\* letter only, with a url that does not parse and with the empty url
DedupPool ==
  {mkSource(<<<<104, 116, 116, 112, 115, 58, 47, 47>>, <<97, 46, 99, 111,
      109>>, <<47, 49>>, <<63, 113>>>>, <<67, 108, 111, 117, 100, 32, 109,
      105, 103, 114, 97, 116, 105, 111, 110, 32, 99, 111, 115, 116, 32, 98,
      101, 110, 99, 104, 109, 97, 114, 107, 115>>),
   mkSource(<<<<104, 116, 116, 112, 115, 58, 47, 47>>, <<97, 46, 99, 111,
       109>>, <<47, 49>>, <<63, 113>>>>, <<67, 108, 111, 117, 100, 32, 99,
       111, 112, 121>>),
   mkSource(<<<<104, 116, 116, 112, 115, 58, 47, 47>>, <<97, 46, 99, 111,
       109>>, <<47, 49>>, <<63, 81>>>>, <<67, 108, 111, 117, 100, 32, 105,
       110, 32, 99, 97, 112, 105, 116, 97, 108, 115>>),
   mkSource(U_noScheme, <<66, 114, 111, 107, 101, 110, 32, 108, 105, 110,
       107>>),
   mkSource(U_empty, <<79, 114, 112, 104, 97, 110>>)}

DedupAdd ==
  /\ Len(dsources) < MaxDedupLen
  /\ \E s \in DedupPool :
       /\ dsources' = Append(dsources, s)
       /\ dres' = Some(dedupeSourcesByUrl(Append(dsources, s)))
  /\ UNCHANGED <<pvars, rvars, tq, tres, gsources, gsimple, kvars, svars>>

DedupInit == Idle(NoCall) /\ PureIdle /\ HarnessIdle

SpecDedup == DedupInit /\ [][DedupAdd]_vars

(***************************************************************************)
(* Harness for scoreSourcesAndGate: a source list grows by one source at a *)
(* time, and the scored gate is evaluated on each list.  The i-th source   *)
(* is on the i-th site of the sites chosen with the first source, taken    *)
(* round and round; its snippet and its content have one of a few lengths. *)
(***************************************************************************)
\* sites: seven hosts; five hosts; and five hosts with a file: url, a url
\* whose host is only "www." and a url without a scheme
SitesWide ==
  <<<<<<104, 116, 116, 112, 115, 58, 47, 47>>, <<97, 46, 99, 111, 109>>>>,
      <<<<104, 116, 116, 112, 115, 58, 47, 47>>, <<119, 119, 119, 46>>, <<98,
      46, 111, 114, 103>>>>,
    <<<<104, 116, 116, 112, 115, 58, 47, 47>>, <<99, 46, 110, 101, 116>>>>,
        <<<<104, 116, 116, 112, 115, 58, 47, 47>>, <<68, 46, 105, 111>>>>,
    <<<<104, 116, 116, 112, 115, 58, 47, 47>>, <<101, 46, 100, 101, 118>>>>,
        <<<<104, 116, 116, 112, 58, 47, 47>>, <<101, 120, 97, 109, 112, 108,
        101, 46, 111, 114, 103>>>>,
    <<<<104, 116, 116, 112, 115, 58, 47, 47>>, <<102, 46, 103, 111, 118>>>>>>
SitesNarrow == SubSeq(SitesWide, 1, 5)
SitesOdd ==
  SitesNarrow \o <<<<<<102, 105, 108, 101, 58, 47, 47>>>>, <<<<104, 116, 116,
      112, 115, 58, 47, 47>>, <<119, 119, 119, 46>>>>, <<<<97, 46, 99, 111,
      109>>>>>>

SitePlans == {SitesWide, SitesNarrow, SitesOdd}

\* the snippet and content of a source, by kind: the lengths after trim()
\* are 0 and 250, 85 and 2375, 79 and 2500, 300 and 2500
ScoreKinds ==
  <<[snippet |-> <<>>, content |-> <<32>> \o Rep(99, 250) \o <<10>>],
    [snippet |-> Rep(115, 85), content |-> Rep(99, 2375)],
    [snippet |-> <<32>> \o Rep(115, 79) \o <<9>>, content |-> Rep(99, 2500)],
    [snippet |-> Rep(115, 300), content |-> Rep(99, 2500) \o <<32, 32>>]>>

\* the source the harness hands over at position i
ScoredSource(sites, i, k) ==
  [url |-> sites[((i - 1) % Len(sites)) + 1] \o <<<<47, 48 + ((i - 1) \div Len(sites))>>>>,
   title |-> <<83, 48 + k>>, snippet |-> ScoreKinds[k].snippet,
   content |-> ScoreKinds[k].content, provider |-> "tavily"]

\* the source list of the given kinds
SourcesOfKinds(sites, kinds) ==
  [i \in 1..Len(kinds) |-> ScoredSource(sites, i, kinds[i])] \o <<>>

\* the list the harness has handed over
ScoreSources == SourcesOfKinds(ssites, skinds)

\* What the harness keeps of a result: passed, the metrics and, for each
\* entry of scored, its score, its breakdown and the place in the input of
\* the source it was made from (0 if it is none of them; the sources of a
\* harness list are all different).
Kept(result, sources) ==
  LET plain(s)  == [f \in (DOMAIN s) \ {"score", "scoreBreakdown"} |-> s[f]]
      places(s) == {i \in DOMAIN sources : sources[i] = plain(s)}
  IN  [passed |-> result.passed, metrics |-> result.metrics,
       scored |-> [i \in DOMAIN result.scored |->
                     [place |-> IF places(result.scored[i]) = {} THEN 0
                                ELSE CHOOSE k \in places(result.scored[i]) : TRUE,
                      score |-> result.scored[i].score,
                      scoreBreakdown |-> result.scored[i].scoreBreakdown]] \o <<>>]

\* a source is added; the kinds of a list never go down
ScoreAdd ==
  /\ Len(skinds) < MaxScoreLen
  /\ \E sites \in (IF ssites = <<>> THEN SitePlans ELSE {ssites}) :
     \E k \in DOMAIN ScoreKinds :
       /\ skinds # <<>> => k >= skinds[Len(skinds)]
       /\ ssites' = sites
       /\ skinds' = Append(skinds, k)
       /\ sres' = LET sources == SourcesOfKinds(sites, Append(skinds, k))
                  IN  Some(Kept(scoreSourcesAndGate(sources), sources))
  /\ UNCHANGED <<pvars, rvars, tq, tres, gsources, gsimple, kvars, dvars>>

ScoreInit == Idle(NoCall) /\ PureIdle /\ HarnessIdle

SpecScore == ScoreInit /\ [][ScoreAdd]_vars

(***************************************************************************)
(* What the history says                                                   *)
(***************************************************************************)
IsPrefix(a, b) == Len(a) <= Len(b) /\ SubSeq(b, 1, Len(a)) = a

RECURSIVE Flatten(_)
Flatten(lists) == IF lists = <<>> THEN <<>> ELSE Head(lists) \o Flatten(Tail(lists))

\* the searcher calls of the run that have returned, in order
ReturnsSoFar == SelectSeq(hist, LAMBDA e : e.type = "return")

\* every source the searcher has returned to the run, in order of arrival
Returned == Flatten([i \in 1..Len(ReturnsSoFar) |-> Response(ReturnsSoFar[i].results)])

\* the stages the run has entered, in order
StagesEntered ==
  LET stages == SelectSeq(hist, LAMBDA e : e.type = "stage")
  IN  [i \in 1..Len(stages) |-> stages[i].name]

StageNames == <<"SEED", "EXPAND", "AUTHORITY", "GATE", "DONE">>

\* the number of events of a type and a pass before position k of the history
CountBefore(k, type, pass) ==
  Cardinality({i \in 1..(k - 1) : hist[i].type = type /\ hist[i].name = pass})

Thrown == {k \in DOMAIN hist : hist[k].type = "throw"}

C4_StageOrder ==
  /\ IsPrefix(StagesEntered, StageNames)
  /\ pc = "done" => StagesEntered = StageNames
  /\ \A k \in DOMAIN hist :
       /\ hist[k].type = "call" =>
            /\ \E s \in 1..(k - 1) :
                 /\ hist[s].type = "stage"
                 /\ hist[s].name = StageOf(hist[k].name)
                 /\ \A j \in (s + 1)..(k - 1) : hist[j].type # "stage"
            /\ \A p \in Passes :
                 CountBefore(k, "call", p) = CountBefore(k, "return", p)
       /\ hist[k].type = "stage" =>
            \A s \in 1..(k - 1) : \A p \in Passes :
              (hist[s].type = "stage" /\ hist[s].name = StageOf(p)) =>
                CountBefore(k, "return", p) = hist[s].n
  /\ (pc = "done" /\ includeDebug = "true") =>
       LET passes == Get(output).debug.passes
       IN  [i \in 1..Len(passes) |-> passes[i].pass] = <<"seed", "expand", "authority">>

\* a run with debug asked for that went through ten searches, with results
\* coming back in the seed pass
C4_FullRunWithDebug ==
  /\ pc = "done"
  /\ includeDebug = "true"
  /\ Len(ReturnsSoFar) = 10
  /\ Get(seed).sources # <<>>
  /\ Len(Get(output).debug.passes) = 3

\* C5: once a searcher call has failed nothing more happens in the call:
\* no retry, no further searcher call, no gate; the call has failed with
\* that very error and has returned no output.
C5_FailureIsFatal ==
  \A k \in Thrown :
    /\ k = Len(hist)
    /\ \A j \in DOMAIN hist : hist[j].name # "GATE"
    /\ pc = "failed"
    /\ error = hist[k].results
    /\ inflight = None
    /\ output = None

\* a search of the authority pass failed after earlier passes found sources
C5_LateFailure ==
  /\ pc = "failed"
  /\ error = "HTTP 429"
  /\ \E k \in Thrown : hist[k].name = "authority"
  /\ Get(seed).sources # <<>>
  /\ Get(expand).sources # <<>>

\* C6: the output returned has a debug field exactly when includeDebug is
\* true; with includeDebug false or absent there is no debug field at all.
C6_DebugOmission ==
  pc = "done" => (("debug" \in DOMAIN Get(output)) <=> includeDebug = "true")

\* a run without includeDebug returned an output that has no debug field
C6_NoDebugWhenAbsent ==
  /\ pc = "done"
  /\ includeDebug = "undefined"
  /\ "debug" \notin DOMAIN Get(output)
  /\ Len(debugPasses) = 3

\* C10: the scored gate on no source at all reports lowInfoRatio 1, the
\* three scores 0 and passed false; and a run all of whose searches came
\* back empty ends INSUFFICIENT_EVIDENCE with no source.
C10_ZeroSources ==
  /\ LET g == scoreSourcesAndGate(<<>>)
     IN  /\ g.metrics.lowInfoRatio = One
         /\ g.metrics.avgScore = Zero
         /\ g.metrics.topSourceScore = Zero
         /\ g.metrics.top3AvgScore = Zero
         /\ g.passed = FALSE
  /\ (pc = "done" /\ \A i \in DOMAIN ReturnsSoFar : ReturnsSoFar[i].results = "empty") =>
       /\ Get(output).decisionStatus = "INSUFFICIENT_EVIDENCE"
       /\ Get(output).sources = <<>>

\* a run of ten searches that all came back empty
C10_AllSearchesEmpty ==
  /\ pc = "done"
  /\ Len(ReturnsSoFar) = 10
  /\ \A i \in DOMAIN ReturnsSoFar : ReturnsSoFar[i].results = "empty"
  /\ Get(output).sources = <<>>
  /\ scoreSourcesAndGate(Get(output).sources).metrics.sources = 0

(***************************************************************************)
(* Properties of two runs against a pure searcher (SpecPure)               *)
(***************************************************************************)
\* C7: the second of two runs with the same input against a pure searcher
\* sends the queries of the first, in the same order, and ends as the first
\* did: with an equal output (status, confidence, sources in order, query
\* hashes and truncation data), or with the same error.
C7_Determinism ==
  run1 # None =>
    /\ IsPrefix(QueriesSent, Get(run1).queries)
    /\ pc \in {"done", "failed"} =>
         /\ QueriesSent = Get(run1).queries
         /\ output = Get(run1).output
         /\ error = Get(run1).error

\* a second run over a goal that is truncated has ended with sources
C7_SecondRunDone ==
  /\ run1 # None
  /\ pc = "done"
  /\ input = InputLong
  /\ Get(output).decisionStatus = "EVIDENCE_SUFFICIENT"
  /\ Get(output).debug.passes[1].queries[1].truncated

(***************************************************************************)
(* Properties of truncateTavilyQuery (SpecTrunc)                           *)
(***************************************************************************)
\* C3: under maxLen 400 the query handed on is at most 400 long and
\* usedLength is its length; truncated is set exactly when the normalized
\* query is longer than 400; and a truncated query got strictly shorter.
C3_TruncationInvariant ==
  tres # None =>
    LET r == Get(tres)[TAVILY_QUERY_MAX]
    IN  /\ r.usedLength <= 400
        /\ r.usedLength = Len(r.q)
        /\ r.truncated <=> r.originalLength > 400
        /\ r.truncated => r.originalLength > r.usedLength

\* a query that was cut and lost white space at the cut as well
C3_CutAndTrimmed ==
  /\ tres # None
  /\ Get(tres)[TAVILY_QUERY_MAX].truncated
  /\ Get(tres)[TAVILY_QUERY_MAX].usedLength < 400

\* the query with white space put around it: another query with the same
\* normalized form
Padded == <<9>> \o TruncQuery \o <<32, 10>>

\* C8: the hash is the same under every maxLen, whether it forces a cut or
\* not, and the same for a query with the same normalized form.
C8_HashStability ==
  tres # None =>
    /\ \A m1, m2 \in MaxLens : Get(tres)[m1].hash = Get(tres)[m2].hash
    /\ normalizeQuery(Padded) = normalizeQuery(TruncQuery) =>
         \A m \in MaxLens : truncateTavilyQuery(Padded, m).hash = Get(tres)[m].hash

\* a query that is cut under maxLen 50 and handed on whole under 400
C8_CutUnderOneLimitOnly ==
  /\ tres # None
  /\ Get(tres)[50].truncated
  /\ ~Get(tres)[TAVILY_QUERY_MAX].truncated
  /\ Padded # TruncQuery
  /\ normalizeQuery(Padded) = normalizeQuery(TruncQuery)

(***************************************************************************)
(* Properties of simpleGate (SpecGate)                                     *)
(***************************************************************************)
\* C9: a source list the gate found sufficient stays sufficient when a
\* source is added to it.
C9_GateMonotonic ==
  [][(gsimple # None /\ gsimple[1].decisionStatus = "EVIDENCE_SUFFICIENT")
       => gsimple'[1].decisionStatus = "EVIDENCE_SUFFICIENT"]_vars

\* a list found sufficient to which a seventh source has been added
C9_SufficientExtended ==
  /\ Len(gsources) = 7
  /\ simpleGate(SubSeq(gsources, 1, 6), input.outputLanguage).decisionStatus
       = "EVIDENCE_SUFFICIENT"
  /\ Get(gsimple).decisionStatus = "EVIDENCE_SUFFICIENT"

(***************************************************************************)
(* Reference 32-bit FNV-1a, in exact integer arithmetic: per character,    *)
(* xor the code into the hash, then multiply by 16777619 modulo 2^32.      *)
(***************************************************************************)
\* the low 32 bits <<hi, lo>> of (mhi * 2^16 + mlo) * (2^24 + 403), exactly
ExactProductLow32(mhi, mlo) ==
  LET t0 == mlo * 403
  IN  <<(mhi * 403 + (t0 \div W16) + (mlo % 256) * 256) % W16, t0 % W16>>

ReferenceStep(h, c) == ExactProductLow32(h[1], Xor(h[2], c))

RECURSIVE ReferenceFold(_, _, _, _)
ReferenceFold(h, s, lo, hi) ==
  IF lo > hi THEN h
  ELSE IF lo = hi THEN ReferenceStep(h, s[lo])
  ELSE LET mid  == (lo + hi) \div 2
           left == ReferenceFold(h, s, lo, mid)
       IN  IF left = left THEN ReferenceFold(left, s, mid + 1, hi) ELSE h

ReferenceFnv1a(str) == Hex8(ReferenceFold(FNV_OFFSET, str, 1, Len(str)))

IsLowerHexDigit(c) == (c >= 48 /\ c <= 57) \/ (c >= 97 /\ c <= 102)

\* the string truncateTavilyQuery hashed for the harness query
Hashed == normalizeQuery(TruncQuery)

\* C11: for every string, fnv1a returns "fnv1a32:" followed by exactly eight
\* lowercase hexadecimal digits, and these digits are the reference 32-bit
\* FNV-1a hash of the string's character codes.
C11_ReferenceFnv1a ==
  tres # None =>
    \A m \in MaxLens :
      LET h == Get(tres)[m].hash
      IN  /\ Len(h) = 16
          /\ SubSeq(h, 1, 8) = S_HashTag
          /\ \A i \in 9..16 : IsLowerHexDigit(h[i])
          /\ SubSeq(h, 9, 16) = ReferenceFnv1a(Hashed)

\* the part of C11 that the code keeps: the tag and eight lowercase digits
C11_TagAndEightDigits ==
  tres # None =>
    \A m \in MaxLens :
      LET h == Get(tres)[m].hash
      IN  /\ Len(h) = 16
          /\ SubSeq(h, 1, 8) = S_HashTag
          /\ \A i \in 9..16 : IsLowerHexDigit(h[i])

\* the one-character query "x" has been hashed
C11_HashOfX == tres # None /\ TruncQuery = <<120>>

(***************************************************************************)
(* normalizeQuery on the harness queries: what truncateTavilyQuery hands   *)
(* on for a query that fits is the normalized query itself (line 263).     *)
(***************************************************************************)
\* no NUL, no two white-space characters in a row, none at either end
IsNormalForm(s) ==
  /\ \A i \in 1..Len(s) : s[i] # 0
  /\ \A i \in 1..(Len(s) - 1) : ~(IsWs(s[i]) /\ IsWs(s[i + 1]))
  /\ (s # <<>> => ~IsWs(s[1]) /\ ~IsWs(s[Len(s)]))

\* C12: for every input string, also one that mixes white space and NUL
\* characters, normalizeQuery returns a string with no NUL, no run of two or
\* more white-space characters and no white space at either end, so that
\* normalizing the result again changes nothing.
C12_NormalizeIsNormalForm ==
  tres # None =>
    LET r == Get(tres)[TAVILY_QUERY_MAX]
    IN  ~r.truncated => IsNormalForm(r.q) /\ normalizeQuery(r.q) = r.q

(***************************************************************************)
(* extractKeywordsDeterministic on the harness texts                       *)
(***************************************************************************)
\* the space-separated tokens of the cleaned harness text
CleanedTokens ==
  LET cleaned == CleanText(KeywordText)
  IN  IF cleaned = <<>> THEN <<>> ELSE SplitOnSpace(cleaned) \o <<>>

\* the tokens among toks that are neither too short nor stop words
Surviving(toks) == {t \in Range(toks) : Len(t) >= 4 /\ t \notin stop}

Frequency(toks, t) == Cardinality({i \in DOMAIN toks : toks[i] = t})

\* a ranks before b: more frequent, or as frequent and lexicographically less
RanksBefore(toks, a, b) ==
  \/ Frequency(toks, a) > Frequency(toks, b)
  \/ (Frequency(toks, a) = Frequency(toks, b) /\ LexLess(a, b))

\* C13: for every text and every max, extractKeywordsDeterministic returns
\* at most max tokens, each distinct, each at least 4 characters long and
\* not a stop word, ordered by non-increasing frequency in the cleaned text
\* with equal frequencies in ascending lexicographic order; no surviving
\* token that ranks before a returned one is left out; a text with no
\* surviving token yields the empty list.
C13_KeywordsRanked ==
  kres # None =>
    LET toks == CleanedTokens
        surv == Surviving(toks)
    IN  \A m \in KeywordMaxes :
          LET res == Get(kres)[m]
          IN  /\ Len(res) <= m
              /\ Len(res) = Min(m, Cardinality(surv))
              /\ \A i, j \in DOMAIN res : i < j => res[i] # res[j]
              /\ \A i \in DOMAIN res : res[i] \in surv
              /\ \A i, j \in DOMAIN res :
                   i < j => RanksBefore(toks, res[i], res[j])
              /\ \A t \in surv :
                   t \notin Range(res) =>
                     \A i \in DOMAIN res : RanksBefore(toks, res[i], t)
              /\ (surv = {} => res = <<>>)

\* three surviving tokens of which two are as frequent as each other and were
\* inserted in descending order, and a cut to fewer tokens than survive
C13_TieAndCut ==
  /\ kres # None
  /\ Len(Get(kres)[10]) = 3
  /\ Len(Get(kres)[2]) = 2
  /\ LET toks == CleanedTokens
     IN  \E i, j \in DOMAIN toks :
           /\ i < j
           /\ toks[i] \in Surviving(toks)
           /\ toks[j] \in Surviving(toks)
           /\ Frequency(toks, toks[i]) = Frequency(toks, toks[j])
           /\ LexLess(toks[j], toks[i])
           /\ Get(kres)[10][1] = toks[j]

(***************************************************************************)
(* Sources whose url does not parse, in a call of runResearchPipeline      *)
(***************************************************************************)
\* the sources of a list whose url new URL() accepts
Parsable(sources) == SelectSeq(sources, LAMBDA s : UrlParses(s.url))

\* the results of the passes that have completed
PassesCompleted ==
  (IF seed = None THEN {} ELSE {Get(seed)})
    \cup (IF expand = None THEN {} ELSE {Get(expand)})
    \cup (IF authority = None THEN {} ELSE {Get(authority)})

\* C14: a source whose url cannot be parsed never makes the call fail and
\* never adds to a unique-domain count: the count runTavilyPass records for
\* a pass, the count simpleGate reports, the domains buildAuthorityQueries
\* lists (looked at when the first authority query is out) and the count of
\* scoreSourcesAndGate (uniqueDomains of the urls, part_000 111) are those
\* of the same list without the sources whose url does not parse; a call
\* fails only when the searcher rejects, and a call that is over without
\* that has an output.
C14_MalformedUrlIgnored ==
  /\ \A p \in PassesCompleted :
       p.debug.uniqueDomains = DomainCount(Parsable(p.sources))
  /\ (pc = "authority" /\ qi = 1) =>
       queries = buildAuthorityQueries(
                   input, Parsable(Get(seed).sources \o Get(expand).sources))
  /\ pc = "done" =>
       LET o == Get(output)
       IN  /\ o.confidenceOverview.rationale.domains = DomainCount(Parsable(o.sources))
           /\ o.confidenceOverview.rationale.sources = Len(o.sources)
           /\ uniqueDomains([i \in DOMAIN o.sources |-> o.sources[i].url])
                = uniqueDomains([i \in DOMAIN Parsable(o.sources) |->
                                   Parsable(o.sources)[i].url])
  /\ pc = "failed" => error \in SearchErrors /\ Thrown # {}
  /\ (pc \notin Passes /\ pc # "idle" /\ Thrown = {}) => pc = "done" /\ output # None

\* a call that returned sources among which one has a url that does not
\* parse, found in its seed pass
C14_MalformedUrlReturned ==
  /\ pc = "done"
  /\ \E i \in DOMAIN Get(output).sources : Get(output).sources[i].url = U_noScheme
  /\ \E i \in DOMAIN Get(seed).sources : Get(seed).sources[i].url = U_noScheme
  /\ Get(seed).debug.uniqueDomains = 7
  /\ Get(seed).debug.sources = 8

(***************************************************************************)
(* Telemetry and the result of a call (SpecSink)                           *)
(***************************************************************************)
\* C15: telemetry never influences the result.  With telemetry disabled
\* (test-mode flag set, or RESEARCH_LOGS = "0") no event is emitted; and with
\* telemetry enabled, whether the console takes the events or fails on one,
\* the call sends the searcher the same queries and ends as the call with
\* telemetry disabled ended.
C15_TelemetryNeverInfluences ==
  /\ env \in TelemetryOff => log = <<>>
  /\ (run1 # None /\ pc \in {"done", "failed"}) =>
       /\ QueriesSent = Get(run1).queries
       /\ output = Get(run1).output
       /\ error = Get(run1).error

\* what holds of the code: with telemetry disabled nothing is emitted, and a
\* call under a console that takes every event ends as the call with
\* telemetry disabled ended
C15_QuietOrWorkingConsole ==
  /\ env \in TelemetryOff => log = <<>>
  /\ (run1 # None /\ pc \in {"done", "failed"} /\ env.consoleThrowsAt = 0) =>
       /\ QueriesSent = Get(run1).queries
       /\ output = Get(run1).output
       /\ error = Get(run1).error

(***************************************************************************)
(* Output language (SpecLanguage)                                          *)
(***************************************************************************)
\* the language the texts of a call with outputLanguage l are written in,
\* as the claim has it: "en" when asked for, "nl" otherwise
ProseLanguage(l) == IF l = "en" THEN "en" ELSE "nl"

\* C16: two calls that differ only in outputLanguage ("nl", "en" or absent),
\* against the same deterministic searcher, send the same queries in the same
\* order and agree on decisionStatus, confidenceOverview.overall, sources
\* and the debug passes; only the rationale and the recommendation or safe
\* default may differ, and an absent outputLanguage gives the very texts
\* that "nl" gives.
C16_LanguageOnlyInProse ==
  (run1 # None /\ pc \in {"done", "failed"}) =>
    /\ QueriesSent = Get(run1).queries
    /\ error = Get(run1).error
    /\ (output = None) = (Get(run1).output = None)
    /\ output # None =>
         LET a == Get(Get(run1).output)
             b == Get(output)
         IN  /\ a.decisionStatus = b.decisionStatus
             /\ a.confidenceOverview.overall = b.confidenceOverview.overall
             /\ a.sources = b.sources
             /\ a.debug = b.debug
             /\ DOMAIN a = DOMAIN b
             /\ ProseLanguage(Get(run1).outputLanguage)
                  = ProseLanguage(input.outputLanguage) => a = b

\* a call without outputLanguage and then one with "nl" have both ended with
\* a recommendation from evidence
C16_AbsentThenDutch ==
  /\ run1 # None
  /\ pc = "done"
  /\ Get(run1).outputLanguage = NoValue
  /\ input.outputLanguage = "nl"
  /\ Get(output).decisionStatus = "EVIDENCE_SUFFICIENT"
  /\ Get(output).recommendationOrSafeDefault.template
       = "Aanbeveling (op basis van gevonden evidence)"

(***************************************************************************)
(* The searcher calls of a run, one at a time (Spec)                       *)
(***************************************************************************)
\* the searcher calls of a pass so far, in order
CallsOf(pass) == SelectSeq(hist, LAMBDA e : e.type = "call" /\ e.name = pass)

\* the number of events of a type in the history
CountOf(type) == Cardinality({k \in DOMAIN hist : hist[k].type = type})

\* the debug record of a pass that has completed
CompletedDebug ==
  (IF seed = None THEN {} ELSE {Get(seed).debug})
    \cup (IF expand = None THEN {} ELSE {Get(expand).debug})
    \cup (IF authority = None THEN {} ELSE {Get(authority).debug})

\* C17: within a pass the searcher is called once per query, in the order of
\* the query list, and the call for the next query starts only after the
\* call before it has returned; at no point of a run is more than one call
\* outstanding; and the string handed to the searcher is exactly the q
\* recorded for the query in the debug record (the possibly truncated form).
C17_OneCallAtATime ==
  /\ CountOf("call") - CountOf("return") - CountOf("throw")
       = (IF inflight = None THEN 0 ELSE 1)
  /\ \A k \in DOMAIN hist :
       (hist[k].type = "call" /\ k < Len(hist)) =>
         /\ hist[k + 1].type \in {"return", "throw"}
         /\ hist[k + 1].name = hist[k].name
  /\ pc \in Passes =>
       LET cs == CallsOf(pc)
       IN  /\ Len(cs) = qi
           /\ Len(qDebug) = qi
           /\ inflight = Some(cs[qi].q)
           /\ \A i \in 1..qi :
                /\ cs[i].q = qDebug[i].q
                /\ Len(cs[i].q) <= TAVILY_QUERY_MAX
                /\ qDebug[i].truncated <=> qDebug[i].originalLength > TAVILY_QUERY_MAX
  /\ \A d \in CompletedDebug :
       LET cs == CallsOf(d.pass)
       IN  /\ Len(cs) = Len(d.queries)
           /\ \A i \in DOMAIN cs : cs[i].q = d.queries[i].q
           /\ \E k \in DOMAIN hist :
                /\ hist[k].type = "stage"
                /\ hist[k].name = StageOf(d.pass)
                /\ hist[k].n = Len(cs)

\* a run over the long goal has made its ten calls, the first of them with a
\* query that was cut
C17_TenCallsOneCut ==
  /\ pc = "done"
  /\ CountOf("call") = 10
  /\ Get(seed).debug.queries[1].truncated
  /\ Len(CallsOf("seed")[1].q) <= TAVILY_QUERY_MAX
  /\ Get(seed).debug.queries[1].originalLength > TAVILY_QUERY_MAX

(***************************************************************************)
(* The shape of a truncated query (SpecTrunc, maxLen = 400)                *)
(***************************************************************************)
\* the length of the longest prefix of s of at most n characters that does
\* not end in white space
HeadLength(s, n) ==
  LET ends == {i \in 1..Min(n, Len(s)) : ~IsWs(s[i])}
  IN  IF ends = {} THEN 0 ELSE CHOOSE i \in ends : \A j \in ends : j <= i

\* the start of the longest suffix of s of at most n characters that does
\* not start with white space (Len(s) + 1 when there is none)
TailStart(s, n) ==
  LET starts == {i \in Max(1, Len(s) - n + 1)..Len(s) : ~IsWs(s[i])}
  IN  IF starts = {} THEN Len(s) + 1 ELSE CHOOSE i \in starts : \A j \in starts : i <= j

FirstOccurrences(sources) ==
  SelectSeq([i \in 1..Len(sources) |-> i],
            LAMBDA i : \A j \in 1..(i - 1) :
                         UrlString(sources[j].url) # UrlString(sources[i].url))

\* C19: for every list of sources, dedupeSourcesByUrl returns exactly the
\* first occurrence of each distinct url string of the input, in the order
\* of these first occurrences: a subsequence of the input in which every url
\* of the input occurs exactly once, urls compared by exact string equality;
\* and applying it to its own output changes nothing.
C19_FirstOfEachUrl ==
  dres # None =>
    LET out   == Get(dres)
        first == FirstOccurrences(dsources)
    IN  /\ Len(out) = Len(first)
        /\ \A k \in DOMAIN out : out[k] = dsources[first[k]]
        /\ \A i \in DOMAIN dsources :
             Cardinality({k \in DOMAIN out : out[k].url = dsources[i].url}) = 1
        /\ dedupeSourcesByUrl(out) = out

\* what holds of the code: the same, of the sources that have a url
C19_FirstOfEachNonEmptyUrl ==
  dres # None =>
    LET out   == Get(dres)
        withUrl == SelectSeq(dsources, LAMBDA s : s.url # <<>>)
        first == FirstOccurrences(withUrl)
    IN  /\ Len(out) = Len(first)
        /\ \A k \in DOMAIN out : out[k] = withUrl[first[k]]
        /\ \A i \in DOMAIN withUrl :
             Cardinality({k \in DOMAIN out : out[k].url = withUrl[i].url}) = 1
        /\ dedupeSourcesByUrl(out) = out

(***************************************************************************)
(* Merging the passes (Spec)                                               *)
(***************************************************************************)
\* every source the searcher has returned to a pass of the run, in order
RawOf(pass) ==
  LET rs == SelectSeq(hist, LAMBDA e : e.type = "return" /\ e.name = pass)
  IN  Flatten([i \in 1..Len(rs) |-> Response(rs[i].results)])

\* C20: the merged list a call returns is the url-deduplication of all raw
\* searcher results in call order (seed, then expand, then authority):
\* deduplicating each pass and then the three lists together, as the code
\* does, gives the same list in the same order as deduplicating the raw
\* concatenation once.
C20_MergeIsOneDedup ==
  pc = "done" =>
    LET raw == RawOf("seed") \o RawOf("expand") \o RawOf("authority")
    IN  /\ raw = Returned
        /\ Get(seed).sources = dedupeSourcesByUrl(RawOf("seed"))
        /\ Get(expand).sources = dedupeSourcesByUrl(RawOf("expand"))
        /\ Get(authority).sources = dedupeSourcesByUrl(RawOf("authority"))
        /\ Get(output).sources
             = dedupeSourcesByUrl(Get(seed).sources \o Get(expand).sources
                                    \o Get(authority).sources)
        /\ Get(output).sources = dedupeSourcesByUrl(raw)

\* a run whose seed pass got the same url twice, from two searches, and whose
\* authority pass got it again
C20_RepeatsWithinAndAcross ==
  /\ pc = "done"
  /\ \E i, j, k \in DOMAIN hist :
       /\ i < j
       /\ hist[i].type = "return" /\ hist[i].name = "seed" /\ hist[i].results = "R1"
       /\ hist[j].type = "return" /\ hist[j].name = "seed" /\ hist[j].results = "R2"
       /\ hist[k].type = "return" /\ hist[k].name = "authority"
       /\ hist[k].results = "R2"
  /\ Len(Get(output).sources) < Len(Get(seed).sources) + Len(Get(authority).sources)

(***************************************************************************)
(* The scored gate on a source list (SpecScore)                            *)
(***************************************************************************)
\* what the scored gate returned on the list it was handed
Scored == Get(sres)

\* the urls of a list
UrlsOf(sources) == [i \in DOMAIN sources |-> sources[i].url]

\* C21: domain counting is the same at every call site: the count of the
\* pipeline (safeDomain, empty results filtered out, as in runTavilyPass and
\* simpleGate) of a list equals the count uniqueDomains gives in the scored
\* gate, whatever the urls: with a host, with an empty host or a host that
\* is only "www.", or malformed.
C21_SameDomainCount ==
  sres # None =>
    /\ DomainCount(ScoreSources) = Scored.metrics.uniqueDomains
    /\ simpleGate(ScoreSources, NoValue).confidenceRationale.domains
         = Scored.metrics.uniqueDomains

\* the score of a source in units of 1/50000, exactly:
\* 0.45 * min(1, s / 300) + 0.55 * min(1, c / 2500) = (75 s + 11 c) / 50000
\* for the trimmed lengths s <= 300 and c <= 2500
ExactScore(source) ==
  75 * Min(Len(Trim(source.snippet)), 300) + 11 * Min(Len(Trim(source.content)), 2500)

\* a source is low-information
LowInformation(source) ==
  Len(Trim(source.content)) < 400 \/ Len(Trim(source.snippet)) < 80

\* the sum of the k largest of the exact scores of a list
RECURSIVE SumOfLargest(_, _)
SumOfLargest(scores, k) ==
  IF k = 0 \/ scores = <<>> THEN 0
  ELSE LET top == CHOOSE i \in DOMAIN scores : \A j \in DOMAIN scores : scores[j] <= scores[i]
       IN  scores[top]
             + SumOfLargest([j \in 1..(Len(scores) - 1) |->
                               IF j < top THEN scores[j] ELSE scores[j + 1]], k - 1)

\* the six conditions on a list, in exact arithmetic
SixConditions(sources) ==
  LET n      == Len(sources)
      scores == [i \in 1..n |-> ExactScore(sources[i])] \o <<>>
      low    == Cardinality({i \in 1..n : LowInformation(sources[i])})
      top3   == Min(3, n)
  IN  /\ n >= 12
      /\ uniqueDomains(UrlsOf(sources)) >= 6
      /\ 100 * SumOfLargest(scores, n) >= 45 * 50000 * n
      /\ 100 * SumOfLargest(scores, 1) >= 65 * 50000
      /\ 100 * SumOfLargest(scores, top3) >= 55 * 50000 * top3
      /\ 10 * low <= 5 * n

\* C27: scoreSourcesAndGate returns passed = true exactly when the six
\* conditions hold at once: at least 12 sources, at least 6 unique domains,
\* average score >= 0.45, top score >= 0.65, average of the top three
\* >= 0.55 and low-information ratio <= 0.5, with the score of a source
\* 0.45 * min(1, snippet / 300) + 0.55 * min(1, content / 2500) on trimmed
\* lengths, and a source low-information when its trimmed content is under
\* 400 characters or its trimmed snippet under 80.
C27_PassedIffSixConditions ==
  sres # None => (Scored.passed <=> SixConditions(ScoreSources))

\* C29: the scored gate is at least as strict as the breadth gate: on every
\* list on which scoreSourcesAndGate returns passed = true, simpleGate
\* returns EVIDENCE_SUFFICIENT, in every output language.
C29_ScoredImpliesBreadth ==
  (sres # None /\ Scored.passed) =>
    \A lang \in {NoValue, "nl", "en"} :
      simpleGate(ScoreSources, lang).decisionStatus = "EVIDENCE_SUFFICIENT"

\* a list passes the scored gate although the two gates count its domains
\* differently: six for the scored gate, five for the breadth gate
C29_PassedWithOddUrls ==
  /\ sres # None
  /\ Scored.passed
  /\ Scored.metrics.uniqueDomains = 6
  /\ DomainCount(ScoreSources) = 5
  /\ simpleGate(ScoreSources, "en").decisionStatus = "EVIDENCE_SUFFICIENT"

\* scored is the input in another order: every place of the input is the
\* place of one entry, no score is below the score after it, and entries of
\* equal score are in the order of the input
IsStableSortOf(scored, n) ==
  /\ Len(scored) = n
  /\ \A k \in 1..n : Cardinality({i \in DOMAIN scored : scored[i].place = k}) = 1
  /\ \A i \in 1..(Len(scored) - 1) :
       /\ FLeq(scored[i + 1].score, scored[i].score)
       /\ scored[i + 1].score = scored[i].score =>
            scored[i].place < scored[i + 1].place

\* C30: the scored list is a permutation of the input, sorted by
\* non-increasing score with equal scores in input order; every score and
\* sub-score lies in [0, 1]; and the metrics satisfy
\* topSourceScore >= top3AvgScore >= avgScore and 0 <= lowInfoRatio <= 1.
C30_ScoredListAndMetrics ==
  sres # None =>
    /\ IsStableSortOf(Scored.scored, Len(skinds))
    /\ \A i \in DOMAIN Scored.scored :
         LET s == Scored.scored[i]
         IN  /\ FLeq(Zero, s.score) /\ FLeq(s.score, One)
             /\ FLeq(Zero, s.scoreBreakdown.snippet) /\ FLeq(s.scoreBreakdown.snippet, One)
             /\ FLeq(Zero, s.scoreBreakdown.content) /\ FLeq(s.scoreBreakdown.content, One)
    /\ FLeq(Scored.metrics.top3AvgScore, Scored.metrics.topSourceScore)
    /\ FLeq(Scored.metrics.avgScore, Scored.metrics.top3AvgScore)
    /\ FLeq(Zero, Scored.metrics.lowInfoRatio)
    /\ FLeq(Scored.metrics.lowInfoRatio, One)

(***************************************************************************)
(* The queries of the three passes                                         *)
(***************************************************************************)
\* the number of queries each pass is to issue
QueryCount(pass) == IF pass = "authority" THEN 4 ELSE 3

\* C22: for every input, the empty one included, and whatever the searcher
\* answers, the seed pass issues exactly 3 queries, the expand pass exactly 3
\* and the authority pass exactly 4, the last three of which are the site:
\* queries for the first three entries of AUTHORITY_DOMAINS; a pass in
\* progress never calls the searcher more often than that, and a run that
\* has completed has called the searcher exactly 10 times.
C22_QueriesPerPass ==
  /\ pc \in Passes =>
       /\ Len(queries) = QueryCount(pc)
       /\ Len(CallsOf(pc)) <= QueryCount(pc)
  /\ \A d \in CompletedDebug :
       /\ Len(d.queries) = QueryCount(d.pass)
       /\ Len(CallsOf(d.pass)) = QueryCount(d.pass)
  /\ pc = "authority" =>
       \A k \in 1..3 :
         queries[k + 1] =
           normalizeQuery(input.decision \o <<32, 115, 105, 116, 101,
               58>> \o AUTHORITY_DOMAINS[k]
                            \o <<32, 101, 118, 105, 100, 101, 110, 99, 101>>)
  /\ pc = "done" => CountOf("call") = 10

\* a run on the empty goal and decision has completed
C22_EmptyInputDone == pc = "done" /\ input = InputEmpty /\ CountOf("call") = 10

\* the words of a query
WordsOf(q) == FilterNonEmpty(SplitOnSpace(q))

\* the words an expand query carries between the decision it starts with and
\* the two words of the fixed phrase it ends with
KeywordPart(q) ==
  LET words == WordsOf(q)
      lead  == Len(WordsOf(normalizeQuery(input.decision)))
  IN  SubSeq(words, lead + 1, Len(words) - 2)

\* the keyword parts of the three expand queries draw on the extracted
\* keywords in order, share no keyword, and hold at most a, b and c keywords
ExpandSlices(a, b, c) ==
  pc = "expand" =>
    LET parts == [i \in 1..3 |-> KeywordPart(queries[i])]
        most  == <<a, b, c>>
    IN  /\ parts[1] \o parts[2] \o parts[3] = ExpandKeywords(Get(seed).sources)
        /\ \A i \in 1..3 : Len(parts[i]) <= most[i]
        /\ \A i, j \in 1..3 :
             i < j => Range(parts[i]) \cap Range(parts[j]) = {}
        /\ \A i \in 1..3 : Cardinality(Range(parts[i])) = Len(parts[i])

\* C23: the three expand queries are built from pairwise disjoint slices of
\* the extracted keyword list, each slice holding at most 3 keywords
C23_DisjointSlicesOfThree == ExpandSlices(3, 3, 3)

\* C23, amended: the slices are pairwise disjoint and hold at most 3, 3 and
\* 4 keywords
C23_DisjointSlices == ExpandSlices(3, 3, 4)

\* the seed pass found text with ten keywords: the third expand query
\* carries four of them
C23_TenKeywords ==
  /\ pc = "expand"
  /\ Len(ExpandKeywords(Get(seed).sources)) = 10
  /\ Len(KeywordPart(queries[3])) = 4

\* a source that has the title and the snippet of s and nothing else of it
TitleAndSnippet(s) ==
  [url |-> <<>>, title |-> s.title, snippet |-> s.snippet, content |-> <<>>,
   provider |-> "other"]

\* seed results that agree with the list given on the title and the snippet
\* of its first six sources: the list cut after six, the list with
\* everything but title and snippet blanked, and the latter with other
\* sources behind position six
SeedVariants(sources) ==
  LET six   == ArraySlice(sources, 0, 6)
      blank == [i \in 1..Len(six) |-> TitleAndSnippet(six[i])]
  IN  {six, blank} \cup (IF Len(six) = 6 THEN {blank \o Response1} ELSE {})

\* an input that agrees with the input of the call on the decision only
OtherInput ==
  [goal |-> input.goal \o <<32, 111, 114, 32, 97, 110, 111, 116, 104, 101,
      114, 32, 103, 111, 97, 108>>, decision |-> input.decision,
   outputLanguage |-> IF input.outputLanguage = "en" THEN "nl" ELSE "en"]

\* C24: the expand queries depend only on the decision and on the title and
\* the snippet of the first six sources of the seed pass: when the expand
\* pass sends its first query, an input with the same decision and another
\* goal and language, with any seed result that agrees on those six titles
\* and snippets, gives the queries the run has built.
C24_ExpandDependsOnSixTitles ==
  (pc = "expand" /\ qi = 1) =>
    \A sources \in SeedVariants(Get(seed).sources) :
      buildExpandQueries(OtherInput, sources) = queries

\* the seed pass returned more than six sources whose later titles hold
\* words of their own
C24_SeedBeyondSix ==
  /\ pc = "expand"
  /\ Len(Get(seed).sources) > 6
  /\ ExpandTopOfAll(Get(seed).sources) # ExpandTop(Get(seed).sources)

\* the sources the authority pass is built on: seed, then expand
SourcesSoFar == Get(seed).sources \o Get(expand).sources

\* whether source i of a list has a url that parses and names a host
HasDomain(sources, i) ==
  UrlParses(sources[i].url) /\ safeDomain(sources[i].url) # <<>>

\* the domains of a list in order of first appearance
SeenDomains(sources) ==
  LET first(i) == /\ HasDomain(sources, i)
                  /\ \A j \in 1..(i - 1) :
                       HasDomain(sources, j) =>
                         safeDomain(sources[j].url) # safeDomain(sources[i].url)
      kept     == SelectSeq([i \in 1..Len(sources) |-> i], first)
  IN  [k \in 1..Len(kept) |-> safeDomain(sources[kept[k]].url)]

\* the place of the word "domains:" among the words of a query; 0 if absent
HintStart(words) ==
  LET at == {k \in 1..Len(words) : words[k] = <<100, 111, 109, 97, 105, 110,
      115, 58>>}
  IN  IF at = {} THEN 0 ELSE CHOOSE k \in at : \A l \in at : k <= l

\* the domains the hint clause of an authority base query lists: the words
\* behind "Already-seen domains:", each without the comma or the full stop
\* that follows it
HintDomains(q) ==
  LET words == WordsOf(q)
      start == HintStart(words)
  IN  IF start = 0 THEN <<>>
      ELSE [k \in 1..(Len(words) - start) |->
              SubSeq(words[start + k], 1, Len(words[start + k]) - 1)]

\* C25: the hint of the authority base query lists distinct domains only, at
\* most 8, in order of first appearance over the seed sources followed by
\* the expand sources; a url that does not parse contributes nothing; and
\* with no domain seen the base query has no hint clause.
C25_HintDomains ==
  (pc = "authority" /\ qi = 1) =>
    LET words  == WordsOf(queries[1])
        listed == HintDomains(queries[1])
        seen   == SeenDomains(SourcesSoFar)
    IN  /\ Len(listed) <= 8
        /\ \A i, j \in 1..Len(listed) : i # j => listed[i] # listed[j]
        /\ listed = SubSeq(seen, 1, Min(8, Len(seen)))
        /\ \A k \in 1..Len(listed) :
             \E i \in 1..Len(SourcesSoFar) :
               /\ UrlParses(SourcesSoFar[i].url)
               /\ listed[k] = StripWww(hostname(SourcesSoFar[i].url))
               /\ listed[k] # <<>>
        /\ seen = <<>> =>
             /\ HintStart(words) = 0
             /\ queries[1] = normalizeQuery(input.decision
                               \o <<32, 97, 117, 116, 104, 111, 114, 105, 116,
                                   97, 116, 105, 118, 101, 32, 115, 111, 117,
                                   114, 99, 101, 115, 32, 103, 117, 105, 100,
                                   101, 108, 105, 110, 101, 115, 32, 99, 111,
                                   110, 115, 101, 110, 115, 117, 115>>)
        /\ seen # <<>> =>
             /\ HintStart(words) > 1
             /\ words[HintStart(words) - 1] = <<65, 108, 114, 101, 97, 100,
                 121, 45, 115, 101, 101, 110>>

\* seed and expand saw nine domains and a url that does not parse
C25_NineDomainsSeen ==
  /\ pc = "authority" /\ qi = 1
  /\ Len(SeenDomains(SourcesSoFar)) > 8
  /\ Len(HintDomains(queries[1])) = 8
  /\ \E i \in 1..Len(SourcesSoFar) : ~UrlParses(SourcesSoFar[i].url)

(***************************************************************************)
(* The output and the gate                                                 *)
(***************************************************************************)
RecommendationTemplates ==
  {"Recommendation (based on collected evidence)",
   "Aanbeveling (op basis van gevonden evidence)"}

SafeDefaultTemplates ==
  {"Insufficient evidence to make a robust recommendation.",
   "Onvoldoende bewijs om een robuuste aanbeveling te doen."}

\* the line a source gets in the list of top sources: its title, or its url
\* when it has no title
TopLine(s) == IF s.title = <<>> THEN UrlString(s.url) ELSE s.title

\* C26: the text of the output matches the decision: it is the
\* recommendation from evidence exactly when decisionStatus is
\* EVIDENCE_SUFFICIENT and the safe default, which lists no source,
\* otherwise; the recommendation lists the first min(5, n) sources of the
\* output's list in its order; and the output's list is the one the gate
\* looked at: the dedupe of everything returned, whose length and domain
\* count the rationale reports and the thresholds decide on.
C26_TextMatchesDecision ==
  pc = "done" =>
    LET o    == Get(output)
        text == o.recommendationOrSafeDefault
        n    == Len(o.sources)
    IN  /\ o.decisionStatus \in {"EVIDENCE_SUFFICIENT", "INSUFFICIENT_EVIDENCE"}
        /\ o.decisionStatus = "EVIDENCE_SUFFICIENT"
             <=> text.template \in RecommendationTemplates
        /\ o.decisionStatus # "EVIDENCE_SUFFICIENT"
             <=> text.template \in SafeDefaultTemplates
        /\ text.template \in SafeDefaultTemplates => "top" \notin DOMAIN text
        /\ text.template \in RecommendationTemplates =>
             /\ Len(text.top) = Min(5, n)
             /\ \A i \in 1..Min(5, n) : text.top[i] = TopLine(o.sources[i])
        /\ text.goal = input.goal /\ text.decision = input.decision
        /\ o.sources = dedupeSourcesByUrl(Returned)
        /\ o.confidenceOverview.rationale.sources = n
        /\ o.confidenceOverview.rationale.domains = DomainCount(o.sources)
        /\ o.decisionStatus = "EVIDENCE_SUFFICIENT"
             <=> (n >= 6 /\ DomainCount(o.sources) >= 4)

\* a recommendation over more than five sources, one of the first five
\* without a title
C26_UntitledAmongTopFive ==
  /\ pc = "done"
  /\ Get(output).decisionStatus = "EVIDENCE_SUFFICIENT"
  /\ Len(Get(output).sources) > 5
  /\ \E i \in 1..5 : Get(output).sources[i].title = <<>>

(***************************************************************************)
(* Termination                                                             *)
(***************************************************************************)
\* the call has returned an output or has failed
Finished == pc \in {"done", "failed"}

\* C28: under a searcher whose every call returns or fails, every call of
\* runResearchPipeline that has been made finishes, by returning an output
\* or by failing, and it never makes more than 10 searcher calls.  The pipeline itself never
\* gives up on a call: while a searcher call is in flight the call of the
\* pipeline has neither returned nor failed, and the only step that changes
\* anything is the answer to that call, so no later query is issued before
\* it.
C28_FinishesWithinTenCalls ==
  /\ (pc # "idle") ~> Finished
  /\ [](CountOf("call") <= 10)
  /\ [](inflight # None =>
          /\ pc \in Passes
          /\ output = None /\ error = NoValue
          /\ CountOf("call") = CountOf("return") + 1)
  /\ [][inflight # None =>
          /\ Len(hist') > Len(hist)
          /\ hist'[Len(hist) + 1].type \in {"return", "throw"}
          /\ SubSeq(hist', 1, Len(hist)) = hist]_vars

\* the tenth searcher call of a run is in flight
C28_TenthCallInFlight ==
  pc = "authority" /\ inflight # None /\ CountOf("call") = 10

====
